---------------------------- MODULE Spec2Model ----------------------------
(***************************************************************************)
(* A model of the Vertica SQLAlchemy dialect's reflection layer            *)
(* (src/vertica_sqlalchemy_dialect/base.py).                               *)
(*                                                                         *)
(* Python strings are sequences of one-character strings, so that the      *)
(* regular expressions, str.lower/upper, str.split, int() and str() of the *)
(* code are computed character by character.  Python's None is the value   *)
(* None below, which is no character sequence.                             *)
(***************************************************************************)
EXTENDS Integers, Sequences, FiniteSets, TLC

VARIABLES
    ischema_names,   \* the module-level type-name lookup table (base.py:44)
    catalog,         \* the database's system catalog, read through the connection
    ret,             \* the last call: operation, arguments, outcome
    warnings,        \* util.warn() calls made by the last call
    logged,          \* logging.warning() calls made by the last call
    queries,         \* the queries the last call handed to the connection, in order
    cursors          \* when the last call issued each query and used up its result

vars == <<ischema_names, catalog, ret, warnings, logged, queries, cursors>>

(***************************************************************************)
(* Bounds of the model.                                                    *)
(***************************************************************************)
MaxArg == 10         \* type arguments (precision, scale, length) range over 0..MaxArg
MaxNameLen == 2      \* caller-supplied names are at most this long
MaxVersionDigits == 2  \* the patch number of a version has at most this many digits

(***************************************************************************)
(* Strings.                                                                *)
(***************************************************************************)
None == <<"None">>

LowerLetters == <<"a","b","c","d","e","f","g","h","i","j","k","l","m",
                  "n","o","p","q","r","s","t","u","v","w","x","y","z">>
UpperLetters == <<"A","B","C","D","E","F","G","H","I","J","K","L","M",
                  "N","O","P","Q","R","S","T","U","V","W","X","Y","Z">>
DigitChars == <<"0","1","2","3","4","5","6","7","8","9">>

Min(S) == CHOOSE x \in S : \A y \in S : x <= y
Max(S) == CHOOSE x \in S : \A y \in S : x >= y

Positions(s, c) == {i \in 1..Len(s) : s[i] = c}

IsDigit(c) == \E i \in 1..10 : DigitChars[i] = c
DigitVal(c) == (CHOOSE i \in 1..10 : DigitChars[i] = c) - 1
IsSpace(c) == c = " "

\* str.upper() and str.lower(), one character
upper_char(c) ==
    IF \E i \in 1..26 : LowerLetters[i] = c
    THEN UpperLetters[CHOOSE i \in 1..26 : LowerLetters[i] = c]
    ELSE c
lower_char(c) ==
    IF \E i \in 1..26 : UpperLetters[i] = c
    THEN LowerLetters[CHOOSE i \in 1..26 : UpperLetters[i] = c]
    ELSE c

RECURSIVE upper(_)
upper(s) == IF Len(s) = 0 THEN <<>> ELSE <<upper_char(s[1])>> \o upper(Tail(s))
RECURSIVE lower(_)
lower(s) == IF Len(s) = 0 THEN <<>> ELSE <<lower_char(s[1])>> \o lower(Tail(s))

\* str.startswith
startswith(s, p) == Len(s) >= Len(p) /\ SubSeq(s, 1, Len(p)) = p

\* "x in s" for a one-character x
Contains(s, c) == Positions(s, c) # {}

\* int(s) of a string of digits and commas: a comma makes it a ValueError
int_ok(s) == Len(s) > 0 /\ \A i \in 1..Len(s) : IsDigit(s[i])
\* int() that keeps the last digit only
int_last_digit(s) == DigitVal(s[Len(s)])

RECURSIVE int(_)
int(s) == IF Len(s) = 0 THEN 0
          ELSE 10 * int(SubSeq(s, 1, Len(s) - 1)) + DigitVal(s[Len(s)])

\* str(n) of a non-negative integer
RECURSIVE str_int(_)
str_int(n) == IF n < 10 THEN <<DigitChars[n + 1]>>
              ELSE str_int(n \div 10) \o <<DigitChars[(n % 10) + 1]>>

\* str(x) of a string or None
str(x) == IF x = None THEN <<"N","o","n","e">> ELSE x

\* str.split(sep) for a one-character separator
RECURSIVE split(_, _)
split(s, c) ==
    IF ~Contains(s, c) THEN <<s>>
    ELSE LET k == Min(Positions(s, c))
         IN  <<SubSeq(s, 1, k - 1)>> \o split(SubSeq(s, k + 1, Len(s)), c)

\* str.split(", ")
RECURSIVE split_pairs(_)
split_pairs(s) ==
    LET at == {k \in 1..(Len(s) - 1) : s[k] = "," /\ s[k + 1] = " "}
    IN  IF at = {} THEN <<s>>
        ELSE <<SubSeq(s, 1, Min(at) - 1)>> \o split_pairs(SubSeq(s, Min(at) + 2, Len(s)))

RECURSIVE rstrip(_)
rstrip(s) == IF Len(s) > 0 /\ IsSpace(s[Len(s)]) THEN rstrip(SubSeq(s, 1, Len(s) - 1)) ELSE s
RECURSIVE lstrip(_)
lstrip(s) == IF Len(s) > 0 /\ IsSpace(s[1]) THEN lstrip(Tail(s)) ELSE s

(***************************************************************************)
(* The regular expressions of _get_column_info.  A failed search is None.  *)
(***************************************************************************)

\* re.sub(r"\(.*\)", "", s): the greedy match runs from the first "(" to the
\* last ")" after it, so at most one match is removed
re_sub_parens(s) ==
    LET opens == Positions(s, "(")
        closes == Positions(s, ")")
    IN  IF opens = {} \/ closes = {} \/ Min(opens) > Max(closes) THEN s
        ELSE SubSeq(s, 1, Min(opens) - 1) \o SubSeq(s, Max(closes) + 1, Len(s))

\* the end of the run of digits and commas that starts at index i
RECURSIVE RunEnd(_, _)
RunEnd(s, i) ==
    IF i <= Len(s) /\ (IsDigit(s[i]) \/ s[i] = ",") THEN RunEnd(s, i + 1) ELSE i

\* re.search(r"\(([\d,]+)\)", s).group(1)
re_search_charlen(s) ==
    LET hits == {i \in Positions(s, "(") :
                    LET j == RunEnd(s, i + 1)
                    IN  j > i + 1 /\ j <= Len(s) /\ s[j] = ")"}
    IN  IF hits = {} THEN None
        ELSE LET i == Min(hits) IN SubSeq(s, i + 1, RunEnd(s, i + 1) - 1)

\* re.search(r"\((.*)\)", s).group(1)
re_search_args(s) ==
    LET opens == Positions(s, "(")
        closes == Positions(s, ")")
    IN  IF opens = {} \/ closes = {} \/ Min(opens) > Max(closes) THEN None
        ELSE SubSeq(s, Min(opens) + 1, Max(closes) - 1)

\* re.split(r"\s*,\s*", s)
RECURSIVE re_split_commas(_)
re_split_commas(s) ==
    IF ~Contains(s, ",") THEN <<s>>
    ELSE LET k == Min(Positions(s, ","))
         IN  <<rstrip(SubSeq(s, 1, k - 1))>>
             \o re_split_commas(lstrip(SubSeq(s, k + 1, Len(s))))

\* re.match(r"interval (.+)", s, re.I).group(1)
S_interval == <<"i","n","t","e","r","v","a","l">>
re_match_interval(s) ==
    IF Len(s) > 9 /\ lower(SubSeq(s, 1, 8)) = S_interval /\ s[9] = " "
    THEN SubSeq(s, 10, Len(s)) ELSE None

\* re.search(r"""(nextval\(')([^']+)('.*$)""", s): the three groups, or None
S_nextval == <<"n","e","x","t","v","a","l","(","'">>
re_search_nextval(s) ==
    LET hits == {i \in 1..Len(s) :
                    /\ i + 9 <= Len(s)
                    /\ SubSeq(s, i, i + 8) = S_nextval
                    /\ s[i + 9] # "'"
                    /\ \E j \in (i + 10)..Len(s) : s[j] = "'"}
    IN  IF hits = {} THEN None
        ELSE LET i == Min(hits)
                 j == Min({k \in (i + 10)..Len(s) : s[k] = "'"})
             IN  <<S_nextval, SubSeq(s, i + 9, j - 1), SubSeq(s, j, Len(s))>>

(***************************************************************************)
(* The type-name lookup table and the type constructors.                   *)
(*                                                                         *)
(* An entry of the table is a class, an instance of a class (the two       *)
(* entries written TIMESTAMP(timezone=True) and TIME(timezone=True)) or a  *)
(* module-level function.  A constructed type is the class with the        *)
(* positional and the keyword arguments it was built from.                 *)
(***************************************************************************)
Class(c) == [kind |-> "class", cls |-> c]
Instance(c) == [kind |-> "instance", cls |-> c]
Function(c) == [kind |-> "function", cls |-> c]

K_UUID == <<"U","U","I","D">>
K_TIMESTAMP == <<"T","I","M","E","S","T","A","M","P">>
K_TIMESTAMPTZ == <<"T","I","M","E","S","T","A","M","P","T","Z">>
K_TIMETZ == <<"T","I","M","E","T","Z">>

\* ischema_names as written at import
ischema_names_at_import ==
       <<"I","N","T">> :> Class("INTEGER") @@
       <<"I","N","T","E","G","E","R">> :> Class("INTEGER") @@
       <<"I","N","T","8">> :> Class("INTEGER") @@
       <<"B","I","G","I","N","T">> :> Class("BIGINT") @@
       <<"S","M","A","L","L","I","N","T">> :> Class("SMALLINT") @@
       <<"T","I","N","Y","I","N","T">> :> Class("SMALLINT") @@
       <<"C","H","A","R">> :> Class("CHAR") @@
       <<"V","A","R","C","H","A","R">> :> Class("VARCHAR") @@
       <<"V","A","R","C","H","A","R","2">> :> Class("VARCHAR") @@
       <<"T","E","X","T">> :> Class("VARCHAR") @@
       <<"N","U","M","E","R","I","C">> :> Class("NUMERIC") @@
       <<"D","E","C","I","M","A","L">> :> Class("NUMERIC") @@
       <<"N","U","M","B","E","R">> :> Class("NUMERIC") @@
       <<"M","O","N","E","Y">> :> Class("NUMERIC") @@
       <<"F","L","O","A","T">> :> Class("FLOAT") @@
       <<"F","L","O","A","T","8">> :> Class("FLOAT") @@
       <<"R","E","A","L">> :> Class("REAL") @@
       <<"D","O","U","B","L","E">> :> Class("DOUBLE_PRECISION") @@
       K_TIMESTAMP :> Class("TIMESTAMP") @@
       <<"T","I","M","E","S","T","A","M","P"," ","W","I","T","H"," ","T","I","M","E","Z","O","N","E">> :> Class("TIMESTAMP") @@
       K_TIMESTAMPTZ :> Instance("TIMESTAMP") @@
       <<"T","I","M","E">> :> Class("TIME") @@
       <<"T","I","M","E"," ","W","I","T","H"," ","T","I","M","E","Z","O","N","E">> :> Class("TIME") @@
       K_TIMETZ :> Instance("TIME") @@
       <<"I","N","T","E","R","V","A","L">> :> Class("INTERVAL") @@
       <<"D","A","T","E">> :> Class("DATE") @@
       <<"D","A","T","E","T","I","M","E">> :> Class("DATETIME") @@
       <<"S","M","A","L","L","D","A","T","E","T","I","M","E">> :> Class("DATETIME") @@
       <<"B","I","N","A","R","Y">> :> Class("BLOB") @@
       <<"V","A","R","B","I","N","A","R","Y">> :> Class("BLOB") @@
       <<"R","A","W">> :> Class("BLOB") @@
       <<"B","Y","T","E","A">> :> Class("BYTEA") @@
       <<"B","O","O","L","E","A","N">> :> Class("BOOLEAN") @@
       <<"L","O","N","G"," ","V","A","R","B","I","N","A","R","Y">> :> Class("BLOB") @@
       <<"L","O","N","G"," ","V","A","R","C","H","A","R">> :> Class("VARCHAR") @@
       <<"G","E","O","M","E","T","R","Y">> :> Class("BLOB")

\* self.ischema_names["UUID"] = UUID ... ["TIMETZ"] = TIME_WITH_TIMEZONE
augment(table) ==
    (K_UUID :> Class("UUID")) @@
    (K_TIMESTAMP :> Class("TIMESTAMP_WITH_PRECISION")) @@
    (K_TIMESTAMPTZ :> Function("TIMESTAMP_WITH_TIMEZONE")) @@
    (K_TIMETZ :> Function("TIME_WITH_TIMEZONE")) @@
    table

\* a positional argument: a Python int or a Python str
IntArg(n) == [int |-> n]
StrArg(s) == [str |-> s]

NoKwargs == [k \in {} |-> TRUE]

\* the number of positional parameters of a class's constructor
MaxPositional(cls) ==
    CASE cls \in {"INTEGER", "BIGINT", "SMALLINT", "DATE"} -> 0
      [] cls \in {"TIMESTAMP", "TIME", "DATETIME", "BLOB", "BYTEA"} -> 1
      [] cls \in {"TIMESTAMP_WITH_PRECISION", "INTERVAL"} -> 2
      [] cls \in {"FLOAT", "REAL", "DOUBLE_PRECISION", "BOOLEAN"} -> 3
      [] cls \in {"NUMERIC"} -> 4
      [] OTHER -> 6

\* the keyword parameters among timezone, precision and fields
AcceptedKeywords(cls) ==
    CASE cls \in {"TIMESTAMP", "TIME", "DATETIME"} -> {"timezone"}
      [] cls = "TIMESTAMP_WITH_PRECISION" -> {"timezone", "precision"}
      [] cls = "INTERVAL" -> {"precision", "fields"}
      [] cls \in {"NUMERIC", "FLOAT", "REAL", "DOUBLE_PRECISION"} -> {"precision"}
      [] OTHER -> {}

TypeError == [raised |-> "TypeError"]
ValueError == [raised |-> "ValueError"]

\* the constructor call cls(args, kwargs)
Construct(cls, args, kwargs) ==
    IF Len(args) > MaxPositional(cls) \/ ~(DOMAIN kwargs \subseteq AcceptedKeywords(cls))
    THEN TypeError
    ELSE [raised |-> "none", type |-> [cls |-> cls, args |-> args, kwargs |-> kwargs]]

\* the call coltype(args, kwargs) of an entry of the table
Call(coltype, args, kwargs) ==
    CASE coltype.kind = "class" -> Construct(coltype.cls, args, kwargs)
      [] coltype.kind = "instance" -> TypeError
      [] coltype.cls = "TIMESTAMP_WITH_TIMEZONE" ->
            Construct("TIMESTAMP_WITH_PRECISION", args, ("timezone" :> TRUE) @@ kwargs)
      [] OTHER ->
            Construct("TIME", args, ("timezone" :> TRUE) @@ kwargs)

NULLTYPE == [cls |-> "NullType", args |-> <<>>, kwargs |-> NoKwargs]

\* an affinity test that every type passes
IsAnyType(type) == TRUE

\* issubclass(coltype._type_affinity, sqltypes.Integer)
IsIntegerAffine(type) == type.cls \in {"INTEGER", "BIGINT", "SMALLINT"}

(***************************************************************************)
(* The Type Translator: VerticaDialect._get_column_info.                   *)
(***************************************************************************)
S_numeric == <<"n","u","m","e","r","i","c">>
S_integer == <<"i","n","t","e","g","e","r">>
S_timestamptz == <<"t","i","m","e","s","t","a","m","p","t","z">>
S_timetz == <<"t","i","m","e","t","z">>
S_timestamp == <<"t","i","m","e","s","t","a","m","p">>
S_time == <<"t","i","m","e">>
S_date == <<"d","a","t","e">>

NoValue == <<>>

Reshaped(attype, args, kwargs) ==
    [raised |-> "none", attype |-> attype, args |-> args, kwargs |-> kwargs]

\* the tuple of strings that the parenthesized text splits into
SplitArgs(data_type) ==
    LET g == re_search_args(data_type)
    IN  IF g # None /\ Len(g) > 0
        THEN LET parts == re_split_commas(g)
             IN  [i \in 1..Len(parts) |-> StrArg(parts[i])]
        ELSE <<>>

\* the if/elif chain on attype: the base type, the positional arguments and
\* the keyword arguments, or the ValueError of an unpacking or of an int()
reshape_args(data_type) ==
    LET attype == re_sub_parens(data_type)
        charlen == re_search_charlen(data_type)
    IN  IF attype = S_numeric THEN
            IF charlen # None THEN
                LET parts == split(charlen, ",")
                IN  IF Len(parts) # 2 THEN ValueError
                    ELSE IF ~int_ok(parts[1]) \/ ~int_ok(parts[2]) THEN ValueError
                    ELSE Reshaped(attype, <<IntArg(int(parts[1])), IntArg(int(parts[2]))>>, NoKwargs)
            ELSE Reshaped(attype, <<>>, NoKwargs)
        ELSE IF attype = S_integer THEN Reshaped(attype, <<>>, NoKwargs)
        ELSE IF attype \in {S_timestamptz, S_timetz} THEN
            IF charlen # None THEN
                IF ~int_ok(charlen) THEN ValueError
                ELSE Reshaped(attype, <<>>, ("timezone" :> TRUE) @@ ("precision" :> int(charlen)))
            ELSE Reshaped(attype, <<>>, ("timezone" :> TRUE))
        ELSE IF attype \in {S_timestamp, S_time} THEN
            Reshaped(attype, <<>>, ("timezone" :> FALSE))
        ELSE IF startswith(attype, S_interval) THEN
            LET field_match == re_match_interval(attype)
                fields == IF field_match # None THEN ("fields" :> field_match) ELSE NoKwargs
            IN  IF charlen # None THEN
                    IF ~int_ok(charlen) THEN ValueError
                    ELSE Reshaped(S_interval, <<>>, ("precision" :> int(charlen)) @@ fields)
                ELSE Reshaped(S_interval, <<>>, fields)
        ELSE IF attype = S_date THEN Reshaped(attype, <<>>, NoKwargs)
        ELSE IF charlen # None THEN
            IF ~int_ok(charlen) THEN ValueError
            ELSE Reshaped(attype, <<IntArg(int(charlen))>>, NoKwargs)
        ELSE Reshaped(attype, SplitArgs(data_type), NoKwargs)

\* "adjust the default value": the autoincrement flag and the default
adjust_default(coltype, default, schema) ==
    LET match == IF default = None THEN None ELSE re_search_nextval(default)
    IN  IF match = None THEN [autoincrement |-> FALSE, default |-> default]
        ELSE [autoincrement |-> IsIntegerAffine(coltype),
              default |->
                  IF ~Contains(match[2], ".") /\ schema # None
                  THEN match[1] \o <<"\"">> \o schema \o <<"\"">> \o <<".">>
                       \o match[2] \o match[3]
                  ELSE default]

\* the descriptor built from the constructed type
column_info(name, type, is_nullable, adj) ==
    [name |-> name,
     type |-> type,
     nullable |-> is_nullable,
     default |-> adj.default,
     autoincrement |-> adj.autoincrement,
     comment |-> str(adj.default)]

\* from "if coltype:" on: the table is augmented by now
construct_and_describe(table, found, built, name, default, is_nullable, schema) ==
    IF built.raised # "none"
    THEN [table |-> augment(table), raised |-> built.raised, info |-> NoValue, warned |-> 0]
    ELSE [table |-> augment(table),
          raised |-> "none",
          info |-> column_info(name, built.type, is_nullable,
                               adjust_default(built.type, default, schema)),
          warned |-> IF found THEN 0 ELSE 1]

\* the lookup of attype.upper() in the table as it is before the augmentation
lookup_and_build(table, r, name, default, is_nullable, schema) ==
    IF r.raised # "none"
    THEN [table |-> table, raised |-> r.raised, info |-> NoValue, warned |-> 0]
    ELSE construct_and_describe(
            table,
            upper(r.attype) \in DOMAIN table,
            IF upper(r.attype) \in DOMAIN table
            THEN Call(table[upper(r.attype)], r.args, r.kwargs)
            ELSE [raised |-> "none", type |-> NULLTYPE],
            name, default, is_nullable, schema)

\* the whole call on the lookup table `table`: the table it leaves, the
\* exception it raises or the column_info it returns, the warnings it emits
_get_column_info(table, name, data_type, default, is_nullable, schema) ==
    lookup_and_build(table, reshape_args(data_type), name, default, is_nullable, schema)

(***************************************************************************)
(* The system catalog, as the connection answers from it.  A catalog view  *)
(* is the sequence of its rows in the order the database returns them.     *)
(* Identifiers are stored in the letter case they were created with;       *)
(* tables, views, projections and sequences of a schema share one          *)
(* case-insensitive namespace, and the column names of v_catalog.columns,  *)
(* primary_keys and constraint_columns are those of the same columns.      *)
(***************************************************************************)
N_s == <<"s">>                \* a schema, stored in lower case
N_V == <<"V">>                \* a schema, stored in upper case
N_Tt == <<"T","t">>           \* a table, stored in mixed case
N_v == <<"v">>                \* a view
N_t == <<"t">>                \* a projection
N_vT == <<"v","T">>           \* a sequence
N_Tv == <<"T","v">>           \* a type, stored in mixed case
N_a == <<"a">>                \* column names
N_B == <<"B">>
N_c == <<"c">>

S_int == <<"i","n","t">>
EmptyStr == <<>>

\* the rows of v_catalog.columns of the table s.Tt: the first column is an
\* integer fed from a sequence or, with tzFirst, a timestamptz; the second
\* is a numeric(10,2)
TableColumns(tzFirst) ==
    << [table_schema |-> N_s, table_name |-> N_Tt, column_name |-> N_a,
        data_type |-> IF tzFirst THEN S_timestamptz ELSE S_int,
        column_default |-> IF tzFirst THEN EmptyStr ELSE S_nextval \o <<"q","'",")">>,
        is_nullable |-> FALSE],
       [table_schema |-> N_s, table_name |-> N_Tt, column_name |-> N_B,
        data_type |-> S_numeric \o <<"(","1","0",",","2",")">>,
        column_default |-> EmptyStr,
        is_nullable |-> TRUE] >>

\* the rows of v_catalog.primary_keys for the primary-key columns pk of s.Tt
PrimaryKeys(cols, pk) ==
    LET keyRow(c) == [table_schema |-> c.table_schema, table_name |-> c.table_name,
                      column_name |-> c.column_name, constraint_type |-> "p"]
        keyed == SelectSeq(cols, LAMBDA c : c.column_name \in pk)
    IN  [i \in 1..Len(keyed) |-> keyRow(keyed[i])]

\* the rows of v_catalog.constraint_columns of s.Tt (table_id 7): one row per
\* primary-key column, and a check constraint on column B
ConstraintColumns(cols, pk) ==
    LET pkRow(c) == [table_id |-> 7, table_schema |-> c.table_schema,
                     table_name |-> c.table_name, constraint_name |-> <<"p","k">>,
                     column_name |-> c.column_name, constraint_type |-> "p"]
        keyed == SelectSeq(cols, LAMBDA c : c.column_name \in pk)
    IN  [i \in 1..Len(keyed) |-> pkRow(keyed[i])]
        \o << [table_id |-> 7, table_schema |-> N_s, table_name |-> N_Tt,
               constraint_name |-> <<"c","k">>, column_name |-> N_B,
               constraint_type |-> "c"] >>

StorageRow(schema, ros, bytes) ==
    [projection_schema |-> schema, projection_name |-> N_t,
     ros_count |-> ros, used_bytes |-> bytes]
PartitionRow(schema, key, ros) ==
    [table_schema |-> schema, projection_name |-> N_t,
     partition_key |-> key, ros_id |-> ros]

\* the projection t exists in schema s and in schema V.  storage: 0 = no row
\* of projection_storage for either, 1 = a row for each.  parts: 0 = no row
\* of partitions, 1 = two partitions of s.t, 2 = one partition of V.t only
ProjectionStorage(storage) ==
    IF storage = 0 THEN <<>>
    ELSE << StorageRow(N_s, 3, 4096), StorageRow(N_V, 1, 2048) >>
Partitions(parts) ==
    CASE parts = 0 -> <<>>
      [] parts = 1 -> << PartitionRow(N_s, <<"k","1">>, 1), PartitionRow(N_s, <<"k","2">>, 2) >>
      [] OTHER -> << PartitionRow(N_V, <<"k","9">>, 5) >>

\* the auth_parameters of an OAUTH authentication record, as Vertica lists
\* them: four name=value pairs separated by ", "
OAuthBlob(a, b, c, d) ==
    <<"c","l","i","e","n","t","_","i","d","=">> \o a
    \o <<",", " ", "c","l","i","e","n","t","_","s","e","c","r","e","t","=">> \o b
    \o <<",", " ", "d","i","s","c","o","v","e","r","y","_","u","r","l","=">> \o c
    \o <<",", " ", "i","n","t","r","o","s","p","e","c","t","_","u","r","l","=">> \o d

V_id == <<"i","d">>                                   \* a client id
V_secret == <<"s","3">>                               \* a client secret
V_padded == <<"c","2","=","=">>                       \* a base64 secret with padding
V_url == <<"h","t","t","p",":","/","/","x">>          \* a URL
V_query == V_url \o <<"?","r","=","1">>               \* a URL with a query string

\* a row of v_catalog.client_auth with auth_method = 'OAUTH'
AuthRow(parameters) ==
    [auth_oid |-> 45, is_auth_enabled |-> TRUE, is_fallthrough_enabled |-> FALSE,
     auth_parameters |-> parameters, auth_priority |-> 0, address_priority |-> 0,
     auth_method |-> "OAUTH"]

\* the models: one model v in schema s with two attribute groups, the first
\* of two fields and two detail rows, the second of one field and one row;
\* and a model of the same name in schema V, whose field names are separated
\* by a comma and a blank, as GET_MODEL_ATTRIBUTE lists them, and whose second
\* group has no detail row
Models ==
    << [schema_name |-> N_s, model_name |-> N_v, owner_name |-> <<"o">>,
        groups |-> << [attr_name |-> <<"g">>, attr_fields |-> <<"x", ",", "y">>,
                       rows |-> 2,
                       details |-> << <<N_a, N_B>>, <<N_c, N_a>> >>],
                      [attr_name |-> <<"h">>, attr_fields |-> <<"z">>,
                       rows |-> 1,
                       details |-> << <<N_c>> >>] >>],
       [schema_name |-> N_V, model_name |-> N_v, owner_name |-> <<"p">>,
        groups |-> << [attr_name |-> <<"g">>, attr_fields |-> <<"x", ",", " ", "y">>,
                       rows |-> 1,
                       details |-> << <<N_a, N_B>> >>],
                      [attr_name |-> <<"h">>, attr_fields |-> <<"z">>,
                       rows |-> 0,
                       details |-> <<>>] >>] >>

Catalog(pk, tzFirst, storage, parts) ==
    [ current_schema |-> N_s,
      schemata |-> << [schema_name |-> N_s], [schema_name |-> N_V] >>,
      tables |-> << [table_id |-> 7, table_schema |-> N_s, table_name |-> N_Tt,
                     create_time |-> <<"1">>],
                    [table_id |-> 9, table_schema |-> N_V, table_name |-> N_Tt,
                     create_time |-> <<"2">>] >>,
      views |-> << [table_id |-> 8, table_schema |-> N_s, table_name |-> N_v,
                    create_time |-> <<"3">>, view_definition |-> <<"q">>] >>,
      column_storage |-> << [anchor_table_name |-> N_Tt, used_bytes |-> 1536],
                            [anchor_table_name |-> N_Tt, used_bytes |-> 1024] >>,
      models |-> Models,
      sequences |-> << [sequence_schema |-> N_s, sequence_name |-> N_vT] >>,
      types |-> << [type_name |-> N_Tv] >>,
      columns |-> TableColumns(tzFirst),
      view_columns |-> << [table_schema |-> N_s, table_name |-> N_v,
                           column_name |-> N_c, data_type |-> S_date] >>,
      projection_columns |-> << [table_schema |-> N_s, projection_name |-> N_t,
                                 projection_column_name |-> N_a,
                                 data_type |-> S_int] >>,
      primary_keys |-> PrimaryKeys(TableColumns(tzFirst), pk),
      constraint_columns |-> ConstraintColumns(TableColumns(tzFirst), pk),
      projections |-> << [projection_schema |-> N_s, projection_name |-> N_t,
                          is_segmented |-> TRUE, segment_expression |-> <<"h">>,
                          is_super_projection |-> TRUE,
                          is_key_constraint_projection |-> FALSE,
                          is_aggregate_projection |-> FALSE,
                          has_expressions |-> FALSE],
                         [projection_schema |-> N_V, projection_name |-> N_t,
                          is_segmented |-> FALSE, segment_expression |-> <<>>,
                          is_super_projection |-> FALSE,
                          is_key_constraint_projection |-> FALSE,
                          is_aggregate_projection |-> TRUE,
                          has_expressions |-> TRUE] >>,
      projection_storage |-> ProjectionStorage(storage),
      partitions |-> Partitions(parts),
      depot_pin_policies |-> << [object_name |-> N_t] >>,
      shards |-> << [shard_name |-> <<"r">>] >>,
      storage_locations |-> << [location_path |-> <<"/","c">>, sharing_type |-> "COMMUNAL"] >>,
      subclusters |-> << [subcluster_name |-> <<"d">>, subclustersize |-> <<"5">>] >>,
      disk_storage |-> [cluster_size |-> 5],
      user_functions |-> << [schema_name |-> N_s, function_name |-> <<"f">>] >>,
      user_libraries |-> << [schema_name |-> N_s, lib_name |-> <<"l">>,
                             description |-> <<"d">>] >>,
      client_auth |-> << AuthRow(OAuthBlob(V_id, V_secret, V_url, V_url)) >> ]

\* a catalog with other authentication records
WithClientAuth(cat, rows) == [cat EXCEPT !.client_auth = rows]

\* every primary key and first column of s.Tt, each with another OAUTH record,
\* and every storage and partitioning of the projections, the catalogs
\* without storage rows also without an OAUTH record
Catalogs ==
    { WithClientAuth(Catalog(pk, tzFirst, 1, 1),
                     <<AuthRow(OAuthBlob(V_id,
                                         IF tzFirst THEN V_padded ELSE V_secret,
                                         IF N_a \in pk THEN V_query ELSE V_url,
                                         IF N_B \in pk THEN V_query ELSE V_url))>>) :
            pk \in SUBSET {N_a, N_B}, tzFirst \in BOOLEAN }
    \cup { IF storage = 0 THEN WithClientAuth(Catalog({N_a}, FALSE, storage, parts), <<>>)
           ELSE Catalog({N_a}, FALSE, storage, parts) :
                storage \in {0, 1}, parts \in {0, 1, 2} }

\* v_catalog.all_tables: the tables and the views
all_tables(cat) ==
    [i \in 1..Len(cat.tables) |->
        [schema_name |-> cat.tables[i].table_schema, table_name |-> cat.tables[i].table_name]]
    \o [i \in 1..Len(cat.views) |->
        [schema_name |-> cat.views[i].table_schema, table_name |-> cat.views[i].table_name]]

(***************************************************************************)
(* Query text.  The code pastes a value between two single quotes of the   *)
(* query; the database reads the string literal up to the first single     *)
(* quote that is not doubled.  A pasted value whose quotes are not all     *)
(* doubled ends the literal early and the statement does not parse, which  *)
(* connection.execute raises as a ProgrammingError.  This holds for the     *)
(* queries called with a quote in at most one of the pasted values.        *)
(***************************************************************************)
RECURSIVE well_quoted(_)
well_quoted(text) ==
    IF Len(text) = 0 THEN TRUE
    ELSE IF text[1] # "'" THEN well_quoted(Tail(text))
    ELSE Len(text) >= 2 /\ text[2] = "'" /\ well_quoted(SubSeq(text, 3, Len(text)))

\* the value of the literal '<text>' for a well-quoted text
RECURSIVE literal(_)
literal(text) ==
    IF Len(text) = 0 THEN <<>>
    ELSE IF text[1] # "'" THEN <<text[1]>> \o literal(Tail(text))
    ELSE <<"'">> \o literal(SubSeq(text, 3, Len(text)))

\* the outcome of a call: what it raises or returns, and the queries it issued
Raise(exception, issued) == [raised |-> exception, value |-> NoValue, queries |-> issued]
Return_(value, issued) == [raised |-> "none", value |-> value, queries |-> issued]

\* the events of a call on its result sets: the n-th query of the call is
\* issued, and the result of the n-th query has been read to its end
issue(n) == [do |-> "issue", n |-> n]
close(n) == [do |-> "close", n |-> n]

\* for row in connection.execute(q), c.scalar() and c.fetchall(), one after
\* the other: each result is read to its end before the next query
RECURSIVE in_turn(_)
in_turn(n) == IF n = 0 THEN <<>> ELSE in_turn(n - 1) \o <<issue(n), close(n)>>

\* the events of a call that follows k queries of the same caller
shifted(events, k) ==
    [i \in 1..Len(events) |-> [do |-> events[i].do, n |-> events[i].n + k]]

\* an outcome with the events of the call
WithCursors(events, r) ==
    [raised |-> r.raised, value |-> r.value, queries |-> r.queries, cursors |-> events]

\* the events of a call: those it lists, or its queries one after the other
CursorsOf(r) == IF "cursors" \in DOMAIN r THEN r.cursors ELSE in_turn(Len(r.queries))

\* connection.execute of a query with the pasted values `texts`: the rows,
\* or the ProgrammingError of a statement that does not parse
ParseError(texts) == \E i \in 1..Len(texts) : ~well_quoted(texts[i])

\* schema_condition: lower(<column>) = '<schema.lower()>', or 1 without a schema
schema_condition(stored, schema) ==
    schema = None \/ lower(stored) = literal(lower(schema))
schema_texts(schema) == IF schema = None THEN <<>> ELSE <<lower(schema)>>

(***************************************************************************)
(* Existence checks.                                                       *)
(***************************************************************************)
has_schema(cat, schema) ==
    IF ParseError(<<lower(schema)>>) THEN Raise("ProgrammingError", <<"schemata">>)
    ELSE Return_(\E i \in 1..Len(cat.schemata) :
                    lower(cat.schemata[i].schema_name) = literal(lower(schema)),
                 <<"schemata">>)

\* "if schema is None: schema = self._get_default_schema_name(connection)"
\* the schema argument used as it was given
default_schema_as_given(cat, schema) == schema

\* if schema is None: schema = self._get_default_schema_name(connection)
default_schema(cat, schema) == IF schema = None THEN cat.current_schema ELSE schema
default_schema_query(schema) == IF schema = None THEN <<"current_schema">> ELSE <<>>

has_table(cat, table_name, schema) ==
    LET sch == default_schema(cat, schema)
        issued == default_schema_query(schema) \o <<"all_tables">>
        rows == all_tables(cat)
    IN  IF ParseError(<<lower(table_name), lower(sch)>>) THEN Raise("ProgrammingError", issued)
        ELSE Return_(\E i \in 1..Len(rows) :
                        /\ lower(rows[i].table_name) = literal(lower(table_name))
                        /\ lower(rows[i].schema_name) = literal(lower(sch)),
                     issued)

has_sequence(cat, sequence_name, schema) ==
    LET sch == default_schema(cat, schema)
        issued == default_schema_query(schema) \o <<"sequences">>
    IN  IF ParseError(<<lower(sequence_name), lower(sch)>>) THEN Raise("ProgrammingError", issued)
        ELSE Return_(\E i \in 1..Len(cat.sequences) :
                        /\ lower(cat.sequences[i].sequence_name) = literal(lower(sequence_name))
                        /\ lower(cat.sequences[i].sequence_schema) = literal(lower(sch)),
                     issued)

has_type(cat, type_name) ==
    IF ParseError(<<lower(type_name)>>) THEN Raise("ProgrammingError", <<"types">>)
    ELSE Return_(\E i \in 1..Len(cat.types) :
                    lower(cat.types[i].type_name) = literal(lower(type_name)),
                 <<"types">>)

(***************************************************************************)
(* get_table_oid: the first table_id of the union of tables and views.     *)
(***************************************************************************)
get_table_oid(cat, table_name, schema) ==
    LET sch == default_schema(cat, schema)
        issued == default_schema_query(schema) \o <<"tables UNION views">>
        A == cat.tables \o cat.views
        rows == SelectSeq(A, LAMBDA r :
                    /\ lower(r.table_name) = literal(lower(table_name))
                    /\ lower(r.table_schema) = literal(lower(sch)))
    IN  IF ParseError(<<lower(table_name), lower(sch)>>) THEN Raise("ProgrammingError", issued)
        ELSE IF Len(rows) = 0 THEN Raise("NoSuchTableError", issued)
        ELSE Return_(rows[1].table_id, issued)

(***************************************************************************)
(* get_columns.                                                            *)
(***************************************************************************)
\* the three SELECTs of the column query, UNION ALL
column_rows(cat, table_name, schema) ==
    LET tt == literal(lower(table_name))
        fromTables == SelectSeq(cat.columns, LAMBDA r :
            lower(r.table_name) = tt /\ schema_condition(r.table_schema, schema))
        fromViews == SelectSeq(cat.view_columns, LAMBDA r :
            lower(r.table_name) = tt /\ schema_condition(r.table_schema, schema))
        fromProjections == SelectSeq(cat.projection_columns, LAMBDA r :
            lower(r.projection_name) = tt /\ schema_condition(r.table_schema, schema))
    IN  [i \in 1..Len(fromTables) |->
            [column_name |-> fromTables[i].column_name,
             data_type |-> fromTables[i].data_type,
             column_default |-> fromTables[i].column_default,
             is_nullable |-> fromTables[i].is_nullable]]
        \o [i \in 1..Len(fromViews) |->
            [column_name |-> fromViews[i].column_name,
             data_type |-> fromViews[i].data_type,
             column_default |-> EmptyStr,
             is_nullable |-> TRUE]]
        \o [i \in 1..Len(fromProjections) |->
            [column_name |-> fromProjections[i].projection_column_name,
             data_type |-> fromProjections[i].data_type,
             column_default |-> EmptyStr,
             is_nullable |-> TRUE]]

\* the column names of the primary-key query
pk_rows(cat, table_name, schema) ==
    LET rows == SelectSeq(cat.primary_keys, LAMBDA r :
                    /\ lower(r.table_name) = literal(lower(table_name))
                    /\ r.constraint_type = "p"
                    /\ schema_condition(r.table_schema, schema))
    IN  [i \in 1..Len(rows) |-> rows[i].column_name]

InSeq(x, seq) == \E i \in 1..Len(seq) : seq[i] = x

\* the loop over the rows of the column query: each row goes through
\* _get_column_info, which may raise and which leaves the lookup table augmented
RECURSIVE columns_loop(_, _, _, _, _, _)
RECURSIVE columns_step(_, _, _, _, _, _)
columns_loop(table, rows, pk_columns, schema, columns, warned) ==
    IF Len(rows) = 0
    THEN [table |-> table, raised |-> "none", value |-> columns, warned |-> warned]
    ELSE columns_step(_get_column_info(table, rows[1].column_name,
                                       lower(rows[1].data_type),
                                       rows[1].column_default,
                                       rows[1].is_nullable, schema),
                      rows, pk_columns, schema, columns, warned)

\* column_info.update({'primary_key': primary_key}); columns.append(column_info)
columns_step(r, rows, pk_columns, schema, columns, warned) ==
    IF r.raised # "none"
    THEN [table |-> r.table, raised |-> r.raised, value |-> NoValue, warned |-> warned]
    ELSE columns_loop(r.table, Tail(rows), pk_columns, schema,
                      Append(columns,
                             [name |-> r.info.name,
                              type |-> r.info.type,
                              nullable |-> r.info.nullable,
                              default |-> r.info.default,
                              autoincrement |-> r.info.autoincrement,
                              comment |-> r.info.comment,
                              primary_key |-> InSeq(rows[1].column_name, pk_columns)]),
                      warned + r.warned)

columns_queries == <<"primary_keys", "columns UNION view_columns UNION projection_columns">>

WithQueries(r, issued) ==
    [table |-> r.table, raised |-> r.raised, value |-> r.value, warned |-> r.warned,
     queries |-> issued]

get_columns(table, cat, table_name, schema) ==
    IF ParseError(<<lower(table_name)>> \o schema_texts(schema))
    THEN [table |-> table, raised |-> "ProgrammingError", value |-> NoValue,
          warned |-> 0, queries |-> <<"primary_keys">>]
    ELSE WithQueries(columns_loop(table, column_rows(cat, table_name, schema),
                                  pk_rows(cat, table_name, schema), schema, <<>>, 0),
                     columns_queries)

(***************************************************************************)
(* Constraint listings.                                                    *)
(***************************************************************************)
\* table_name = '<table>' AND table_schema = '<schema>': the stored names
\* themselves are compared, not their lower case
get_unique_constraints(cat, table_name, schema) ==
    LET sch == default_schema(cat, schema)
        issued == default_schema_query(schema) \o <<"constraint_columns">>
        rows == SelectSeq(cat.constraint_columns, LAMBDA r :
                    /\ r.table_name = literal(lower(table_name))
                    /\ r.table_schema = literal(lower(sch)))
    IN  IF ParseError(<<lower(table_name), lower(sch)>>) THEN Raise("ProgrammingError", issued)
        ELSE Return_([i \in 1..Len(rows) |->
                        [name |-> rows[i].constraint_name,
                         column_names |-> rows[i].column_name]],
                     issued)

get_check_constraints(cat, table_name, schema) ==
    LET oid == get_table_oid(cat, table_name, schema)
        issued == oid.queries \o <<"constraint_columns">>
        rows == SelectSeq(cat.constraint_columns, LAMBDA r :
                    r.table_id = oid.value /\ r.constraint_type = "c")
    IN  IF oid.raised # "none" THEN oid
        ELSE Return_([i \in 1..Len(rows) |->
                        [name |-> rows[i].constraint_name,
                         sqltext |-> rows[i].column_name]],
                     issued)

\* a call that passes no schema argument
Omitted == <<"omitted">>

\* the second definition of get_pk_constraint in the class, which is the one
\* the class keeps; its parameter is written "schema: None", an annotation
\* and no default, so that a call without a schema raises a TypeError
get_pk_constraint(cat, table_name, schema) ==
    IF schema = Omitted THEN Raise("TypeError", <<>>)
    ELSE IF ParseError(<<lower(table_name)>> \o schema_texts(schema))
    THEN Raise("ProgrammingError", <<"primary_keys">>)
    ELSE LET pk_columns == pk_rows(cat, table_name, schema)
         IN  Return_([constrained_columns |-> pk_columns, name |-> pk_columns],
                     <<"primary_keys">>)

get_foreign_keys(cat, table_name, schema) == Return_(<<>>, <<>>)

(***************************************************************************)
(* Projection properties.                                                  *)
(***************************************************************************)
py_bool(b) == IF b THEN <<"T","r","u","e">> ELSE <<"F","a","l","s","e">>

\* str(row) of a one-column row holding a string
py_row(x) == <<"(","'">> \o x \o <<"'",",",")">>

\* rows of a view whose projection_name matches, whatever the schema: the
\* query text of these functions has no place for schema_condition
named(rows, projection_name) ==
    SelectSeq(rows, LAMBDA r : lower(r.projection_name) = literal(lower(projection_name)))

Last(seq) == seq[Len(seq)]

_get_ros_count(cat, projection_name, schema) ==
    LET rows == named(cat.projection_storage, projection_name)
    IN  IF ParseError(<<lower(projection_name)>>)
        THEN Raise("ProgrammingError", <<"projection_storage">>)
        ELSE IF Len(rows) = 0 THEN Raise("UnboundLocalError", <<"projection_storage">>)
        ELSE Return_(Last(rows).ros_count, <<"projection_storage">>)

\* one is_segmented query, and one segment_expression query per row of it
\* the second query is issued, and its result read, inside the loop over the
\* rows of the first: for data in connection.execute(sig): ...
\*     for data in connection.execute(ssk)
RECURSIVE nested_in_turn(_, _)
nested_in_turn(outer, rows) ==
    IF rows = 0 THEN <<>>
    ELSE nested_in_turn(outer, rows - 1) \o <<issue(outer + rows), close(outer + rows)>>

_get_segmented(cat, projection_name, schema) ==
    LET rows == named(cat.projections, projection_name)
        issued == <<"projections">> \o [i \in 1..Len(rows) |-> "projections"]
        events == <<issue(1)>> \o nested_in_turn(1, Len(rows)) \o <<close(1)>>
    IN  IF ParseError(<<lower(projection_name)>>)
        THEN Raise("ProgrammingError", <<"projections">>)
        ELSE [raised |-> "none",
              value |-> IF Len(rows) = 0 THEN <<EmptyStr, EmptyStr>>
                        ELSE <<py_bool(Last(rows).is_segmented),
                               py_row(Last(rows).segment_expression)>>,
              queries |-> issued,
              cursors |-> events]

RECURSIVE type_flags(_)
type_flags(rows) ==
    IF Len(rows) = 0 THEN <<>>
    ELSE (IF rows[1].is_super_projection THEN <<"is_super_projection">> ELSE <<>>)
         \o (IF rows[1].is_key_constraint_projection
             THEN <<"is_key_constraint_projection">> ELSE <<>>)
         \o (IF rows[1].is_aggregate_projection THEN <<"is_aggregate_projection">> ELSE <<>>)
         \o (IF rows[1].has_expressions THEN <<"has_expressions">> ELSE <<>>)
         \o type_flags(Tail(rows))

_get_projectiontype(cat, projection_name, schema) ==
    LET rows == SelectSeq(cat.projections, LAMBDA r :
                    /\ lower(r.projection_name) = literal(lower(projection_name))
                    /\ schema_condition(r.projection_schema, schema))
    IN  IF ParseError(<<lower(projection_name)>> \o schema_texts(schema))
        THEN Raise("ProgrammingError", <<"projections">>)
        ELSE Return_(type_flags(rows), <<"projections">>)

_get_partitionkey(cat, projection_name, schema) ==
    LET rows == named(cat.partitions, projection_name)
    IN  IF ParseError(<<lower(projection_name)>>)
        THEN Raise("ProgrammingError", <<"partitions">>)
        ELSE Return_(IF Len(rows) = 0 THEN EmptyStr ELSE rows[1].partition_key,
                     <<"partitions">>)

_get_numpartitions(cat, projection_name, schema) ==
    IF ParseError(<<lower(projection_name)>>)
    THEN Raise("ProgrammingError", <<"partitions">>)
    ELSE Return_(Len(named(cat.partitions, projection_name)), <<"partitions">>)

\* ROUND(used_bytes // 1024) of the last row, a number; "" without a row
_get_projectionsize(cat, projection_name, schema) ==
    LET rows == named(cat.projection_storage, projection_name)
    IN  IF ParseError(<<lower(projection_name)>>)
        THEN Raise("ProgrammingError", <<"projection_storage">>)
        ELSE Return_(IF Len(rows) = 0 THEN StrArg(EmptyStr)
                     ELSE IntArg(Last(rows).used_bytes \div 1024),
                     <<"projection_storage">>)

_get_ifcachedproj(cat, projection_name, schema) ==
    LET rows == SelectSeq(cat.depot_pin_policies, LAMBDA r :
                    lower(r.object_name) = literal(lower(projection_name)))
    IN  IF ParseError(<<lower(projection_name)>>)
        THEN Raise("ProgrammingError", <<"depot_pin_policies">>)
        ELSE Return_(Len(rows) > 0, <<"depot_pin_policies">>)

\* the calls of get_projection_comment in the order of its dict literal
projection_calls(cat, projection_name, schema) ==
    << _get_ros_count(cat, projection_name, schema),
       _get_segmented(cat, projection_name, schema),
       _get_projectiontype(cat, projection_name, schema),
       _get_partitionkey(cat, projection_name, schema),
       _get_numpartitions(cat, projection_name, schema),
       _get_segmented(cat, projection_name, schema),
       _get_projectionsize(cat, projection_name, schema),
       _get_ifcachedproj(cat, projection_name, schema) >>

\* the queries of the first n calls, in order
RECURSIVE issued_by(_, _)
issued_by(calls, n) ==
    IF n = 0 THEN <<>> ELSE issued_by(calls, n - 1) \o calls[n].queries

\* the events of the first n calls, in order
RECURSIVE events_of(_, _)
events_of(calls, n) ==
    IF n = 0 THEN <<>>
    ELSE events_of(calls, n - 1)
         \o shifted(CursorsOf(calls[n]), Len(issued_by(calls, n - 1)))

S_KB == <<" ","K","B">>

\* str(x) of a Python list of strings: ['a', 'b']
RECURSIVE py_items(_)
py_items(items) ==
    IF Len(items) = 0 THEN <<>>
    ELSE <<"'", items[1], "'">>
         \o (IF Len(items) > 1 THEN <<",", " ">> ELSE <<>>)
         \o py_items(Tail(items))
py_list_str(items) == <<"[">> \o py_items(items) \o <<"]">>

\* str(x) of a Python int or str
py_str(x) == IF "int" \in DOMAIN x THEN str_int(x.int) ELSE x.str

\* the text of the dict is abbreviated to its first words
get_projection_comment(cat, projection_name, schema) ==
    LET calls == projection_calls(cat, projection_name, schema)
        failed == {i \in 1..Len(calls) : calls[i].raised # "none"}
        made == IF failed # {} THEN Min(failed) ELSE Len(calls)
    IN  WithCursors(events_of(calls, made),
        IF failed # {}
        THEN Raise(calls[Min(failed)].raised, issued_by(calls, Min(failed)))
        ELSE Return_(
            [text |-> "Vertica physically stores table data in projections",
             properties |->
                ("ROS Count" :> str_int(calls[1].value)) @@
                ("is_segmented" :> calls[2].value[1]) @@
                ("Projection Type" :> py_list_str(calls[3].value)) @@
                ("Partition Key" :> calls[4].value) @@
                ("Number of Partition" :> str_int(calls[5].value)) @@
                ("Segmentation_key" :> calls[6].value[2]) @@
                ("Projection Size" :> py_str(calls[7].value) \o S_KB) @@
                ("Projection Cached" :> py_bool(calls[8].value))],
            issued_by(calls, Len(calls))))

(***************************************************************************)
(* Extended properties.  `fail` is the number of the query execution that  *)
(* fails with an exception of the connection (0: none fails).              *)
(***************************************************************************)
S_GB == <<" ","G","B">>

RECURSIVE communal_paths(_)
communal_paths(rows) ==
    IF Len(rows) = 0 THEN <<>>
    ELSE rows[1].location_path \o <<" ","|"," ">> \o communal_paths(Tail(rows))

RECURSIVE subcluster_sizes(_)
subcluster_sizes(rows) ==
    IF Len(rows) = 0 THEN <<>>
    ELSE rows[1].subcluster_name \o <<" ","-","-"," ">> \o rows[1].subclustersize
         \o <<" ","G","B"," ","|"," "," ">> \o subcluster_sizes(Tail(rows))

\* on any exception: logging.warning(...), and the function ends without a
\* return statement
_get_database_properties(cat, database, fail) ==
    LET eon == Len(cat.shards) > 0
        plan == <<"shards">> \o (IF eon THEN <<"storage_locations">> ELSE <<>>)
                \o <<"subclusters JOIN disk_storage", "disk_storage">>
        communal == SelectSeq(cat.storage_locations, LAMBDA r : r.sharing_type = "COMMUNAL")
        \* the query of the communal paths is issued inside the loop over the
        \* one row of the first query; a query that fails returns no result
        events == IF eon THEN <<issue(1), issue(2), close(2), close(1)>>
                              \o shifted(in_turn(2), 2)
                  ELSE in_turn(3)
        failing == CHOOSE i \in 1..Len(events) : events[i] = issue(fail)
    IN  IF fail \in 1..Len(plan)
        THEN [raised |-> "none", value |-> None, queries |-> SubSeq(plan, 1, fail),
              logged |-> 1, cursors |-> SubSeq(events, 1, failing)]
        ELSE [raised |-> "none",
              value |-> [cluster_type |-> IF eon THEN <<"E","o","n">>
                                          ELSE <<"E","n","t","e","r","p","r","i","s","e">>,
                         cluster_size |-> str_int(cat.disk_storage.cluster_size) \o S_GB,
                         subcluster |-> <<" ">> \o subcluster_sizes(cat.subclusters),
                         communal_storage_path |->
                            IF eon THEN communal_paths(communal) ELSE EmptyStr],
              queries |-> plan,
              logged |-> 0,
              cursors |-> events]

RECURSIVE udx_names(_)
udx_names(rows) ==
    IF Len(rows) = 0 THEN <<>>
    ELSE rows[1].function_name \o <<","," ">> \o udx_names(Tail(rows))

RECURSIVE library_descriptions(_)
library_descriptions(rows) ==
    IF Len(rows) = 0 THEN <<>>
    ELSE rows[1].lib_name \o <<" ","-","-"," ">> \o rows[1].description
         \o <<" ","|"," "," ">> \o library_descriptions(Tail(rows))

\* on any exception: self.report.report_failure(...), and the dialect has no
\* attribute `report`, which is an AttributeError raised from the handler
_get_schema_properties(cat, schema, fail) ==
    LET plan == <<"projections", "user_functions", "user_libraries">>
    IN  IF schema = None
        THEN [raised |-> "AttributeError", value |-> NoValue, queries |-> <<>>, logged |-> 0]
        ELSE IF ParseError(<<lower(schema)>>)
        THEN [raised |-> "AttributeError", value |-> NoValue,
              queries |-> SubSeq(plan, 1, 1), logged |-> 0]
        ELSE IF fail \in 1..Len(plan)
        THEN [raised |-> "AttributeError", value |-> NoValue,
              queries |-> SubSeq(plan, 1, fail), logged |-> 0]
        ELSE
        LET sch == literal(lower(schema))
            counted == SelectSeq(cat.projections, LAMBDA r : lower(r.projection_schema) = sch)
            functions == SelectSeq(cat.user_functions, LAMBDA r : r.schema_name = sch)
            libraries == SelectSeq(cat.user_libraries, LAMBDA r : lower(r.schema_name) = sch)
        IN  [raised |-> "none",
             value |-> [projection_count |-> str_int(Len(counted)),
                        udx_list |-> udx_names(functions),
                        udx_language |-> library_descriptions(libraries)],
             queries |-> plan,
             logged |-> 0]

(***************************************************************************)
(* get_oauth_comment.                                                      *)
(***************************************************************************)
\* whole_data[k].split("=")[1]: the text between the first and the second
\* "=" of the k-th pair
oauth_value(parameters, k) == split(split_pairs(parameters)[k], "=")[2]

\* whole_data[k] and its split("=")[1] exist for the four pairs
oauth_indexable(parameters) ==
    /\ Len(split_pairs(parameters)) >= 4
    /\ \A k \in 1..4 : Len(split(split_pairs(parameters)[k], "=")) >= 2

oauth_properties(row) ==
    ("discovery_url" :> oauth_value(row.auth_parameters, 3)) @@
    ("client_id" :> oauth_value(row.auth_parameters, 1)) @@
    ("introspect_url" :> oauth_value(row.auth_parameters, 4)) @@
    ("auth_oid " :> str_int(row.auth_oid)) @@
    ("client_secret" :> oauth_value(row.auth_parameters, 2)) @@
    ("is_auth_enabled" :> py_bool(row.is_auth_enabled)) @@
    ("auth_priority" :> str_int(row.auth_priority)) @@
    ("address_priority" :> str_int(row.address_priority)) @@
    ("is_fallthrough_enabled" :> py_bool(row.is_fallthrough_enabled))

\* the loop keeps the values of the last row; without a row discovery_url is
\* unbound at the return.  The text of the dict is abbreviated.
get_oauth_comment(cat, oauth, schema) ==
    LET rows == SelectSeq(cat.client_auth, LAMBDA r : r.auth_method = "OAUTH")
    IN  IF \E i \in 1..Len(rows) : ~oauth_indexable(rows[i].auth_parameters)
        THEN Raise("IndexError", <<"client_auth">>)
        ELSE IF Len(rows) = 0 THEN Raise("UnboundLocalError", <<"client_auth">>)
        ELSE Return_([text |-> "Vertica supports OAUTH based authentication.",
                      properties |-> oauth_properties(Last(rows))],
                     <<"client_auth">>)

(***************************************************************************)
(* get_view_definition, get_table_comment and get_model_comment.           *)
(***************************************************************************)
\* connection.scalar: the first column of the first row, or None
get_view_definition(cat, view_name, schema) ==
    LET rows == SelectSeq(cat.views, LAMBDA r :
                    /\ r.table_name = literal(view_name)
                    /\ schema_condition(r.table_schema, schema))
    IN  IF ParseError(<<view_name>> \o schema_texts(schema))
        THEN Raise("ProgrammingError", <<"views">>)
        ELSE Return_(IF Len(rows) = 0 THEN None ELSE rows[1].view_definition,
                     <<"views">>)

RECURSIVE used_bytes_sum(_)
used_bytes_sum(rows) ==
    IF Len(rows) = 0 THEN 0 ELSE rows[1].used_bytes + used_bytes_sum(Tail(rows))

\* ROUND(SUM(used_bytes) / 1024) of the rows, NULL without rows; then
\* TableSize is 0 for NULL and math.trunc of the size otherwise
TableSize(rows) ==
    IF Len(rows) = 0 THEN 0 ELSE (2 * used_bytes_sum(rows) + 1024) \div 2048

\* the text of the dict is abbreviated to its first words
get_table_comment(cat, table_name, schema) ==
    LET match(r) == /\ lower(r.table_name) = literal(lower(table_name))
                    /\ schema_condition(r.table_schema, schema)
        created == SelectSeq(cat.tables, match) \o SelectSeq(cat.views, match)
        stored == SelectSeq(cat.column_storage, LAMBDA r :
                      lower(r.anchor_table_name) = literal(lower(table_name)))
        columns == IF Len(created) = 0 THEN <<>> ELSE Last(created).create_time
    IN  IF ParseError(<<lower(table_name)>> \o schema_texts(schema))
        THEN Raise("ProgrammingError", <<"tables">>)
        ELSE Return_(
            [text |-> "References the properties of a native table in Vertica.",
             properties |->
                ("create_time" :> str(columns)) @@
                ("Total_Table_Size" :> str_int(TableSize(stored)) \o S_KB)],
            <<"tables", "column_storage">>)

\* str.join
RECURSIVE join(_, _)
join(sep, parts) ==
    IF Len(parts) = 0 THEN <<>>
    ELSE IF Len(parts) = 1 THEN parts[1]
    ELSE parts[1] \o sep \o join(sep, Tail(parts))

\* str(x) of a string inside a list or a dict, of an int, of a list of
\* strings, and of a dict: a dict is the sequence of its items in insertion
\* order, a value is tagged str, int or list
S_comma == <<",", " ">>
py_repr(s) == <<"'">> \o s \o <<"'">>
py_value(v) ==
    IF "str" \in DOMAIN v THEN py_repr(v.str)
    ELSE IF "int" \in DOMAIN v THEN str_int(v.int)
    ELSE <<"[">> \o join(S_comma, [i \in 1..Len(v.list) |-> py_repr(v.list[i])]) \o <<"]">>
py_dict_str(d) ==
    <<"{">> \o join(S_comma, [i \in 1..Len(d) |->
                        py_repr(d[i].key) \o <<":", " ">> \o py_value(d[i].value)])
            \o <<"}">>
py_dicts_str(ds) ==
    <<"[">> \o join(S_comma, [i \in 1..Len(ds) |-> py_dict_str(ds[i])]) \o <<"]">>

\* d[key] = value
dict_set(d, key, value) ==
    IF \E i \in 1..Len(d) : d[i].key = key
    THEN [i \in 1..Len(d) |-> IF d[i].key = key THEN [key |-> key, value |-> value]
                              ELSE d[i]]
    ELSE Append(d, [key |-> key, value |-> value])
dict_get(d, key) == d[CHOOSE i \in 1..Len(d) : d[i].key = key].value

\* if each not in value_final: value_final[each] = list(); then append
value_append(value_final, each, x) ==
    IF \E i \in 1..Len(value_final) : value_final[i].key = each
    THEN dict_set(value_final, each,
                  [list |-> Append(dict_get(value_final, each).list, x)])
    ELSE dict_set(value_final, each, [list |-> <<x>>])

\* for index, each in enumerate(attr_fields): append data[index]
RECURSIVE pivot_fields(_, _, _, _)
pivot_fields(value_final, attr_fields, data, index) ==
    IF index > Len(attr_fields) THEN value_final
    ELSE pivot_fields(value_append(value_final, attr_fields[index], data[index]),
                      attr_fields, data, index + 1)

\* for data in connection.execute(get_attr_details)
RECURSIVE pivot_rows(_, _, _)
pivot_rows(value_final, attr_fields, rows) ==
    IF Len(rows) = 0 THEN value_final
    ELSE pivot_rows(IF Len(attr_fields) > 1
                    THEN pivot_fields(value_final, attr_fields, rows[1], 1)
                    ELSE value_append(value_final, attr_fields[1], rows[1][1]),
                    attr_fields, Tail(rows))

\* dict.update
RECURSIVE dict_update(_, _)
dict_update(d, other) ==
    IF Len(other) = 0 THEN d
    ELSE dict_update(dict_set(d, other[1].key, other[1].value), Tail(other))

S_attr_name == <<"a","t","t","r","_","n","a","m","e">>
S_attr_fields == <<"a","t","t","r","_","f","i","e","l","d","s">>
S_of_rows == <<"#","_","o","f","_","r","o","w","s">>

\* GET_MODEL_ATTRIBUTE(model_name='<schema>.<model>'): the attribute groups
\* of the model of that name, looked up without regard to letter case
model_rows(cat, qualified) ==
    SelectSeq(cat.models, LAMBDA r :
        lower(r.schema_name) \o <<".">> \o lower(r.model_name) = lower(qualified))

\* one entry of attr_name
model_attributes(group) ==
    << [key |-> S_attr_name, value |-> [str |-> group.attr_name]],
       [key |-> S_attr_fields, value |-> [str |-> group.attr_fields]],
       [key |-> S_of_rows, value |-> [int |-> group.rows]] >>

\* one entry of attributes_details; the detail rows are those of the group
\* named attr_name
model_details(groups, attributes) ==
    LET attr_names == dict_get(attributes, S_attr_name).str
        attr_fields == split(str(dict_get(attributes, S_attr_fields).str), ",")
        fetched == SelectSeq(groups, LAMBDA g : g.attr_name = literal(attr_names))
    IN  dict_update(<< [key |-> S_attr_name, value |-> [str |-> attr_names]] >>,
                    pivot_rows(<<>>, attr_fields,
                               IF Len(fetched) = 0 THEN <<>> ELSE fetched[1].details))

\* the text of the dict is abbreviated to its first words; schema.lower()
\* raises an AttributeError for None before any query is issued
get_model_comment(cat, model_name, schema) ==
    IF schema = None THEN Raise("AttributeError", <<>>)
    ELSE
    LET owners == SelectSeq(cat.models, LAMBDA r : r.model_name = literal(model_name))
        used_by == IF Len(owners) = 0 THEN <<>> ELSE Last(owners).owner_name
        qualified == lower(schema) \o <<".">> \o model_name
        found == model_rows(cat, literal(qualified))
        groups == found[1].groups
        attr_name == [i \in 1..Len(groups) |-> model_attributes(groups[i])]
        attributes_details == [i \in 1..Len(groups) |->
                                 model_details(groups, attr_name[i])]
    IN  IF ParseError(<<model_name>>) THEN Raise("ProgrammingError", <<"models">>)
        ELSE IF ParseError(<<qualified>>) \/ Len(found) = 0
        THEN Raise("ProgrammingError", <<"models", "get_model_attribute">>)
        ELSE Return_(
            [text |-> "Vertica provides a number of machine learning functions",
             properties |->
                ("used_by" :> str(used_by)) @@
                ("Model Attributes" :> py_dicts_str(attr_name)) @@
                ("Model Specifications" :> py_dicts_str(attributes_details))],
            <<"models", "get_model_attribute">>
                \o [i \in 1..Len(groups) |-> "get_model_attribute"])

(***************************************************************************)
(* _get_server_version_info.                                               *)
(***************************************************************************)
S_banner == <<"V","e","r","t","i","c","a"," ","A","n","a","l","y","t","i","c"," ",
              "D","a","t","a","b","a","s","e"," ","v">>

\* the end of the run of digits that starts at index i
RECURSIVE DigitsEnd(_, _)
DigitsEnd(s, i) == IF i <= Len(s) /\ IsDigit(s[i]) THEN DigitsEnd(s, i + 1) ELSE i

\* the indexes at which S_banner starts in s
BannerAt(s) ==
    {k \in 1..(Len(s) - Len(S_banner) + 1) :
        SubSeq(s, k, k + Len(S_banner) - 1) = S_banner}

\* the three groups of (\d+)\.(\d+)\.(\d)+ matched at index i, or None: the
\* first two are whole runs of digits, each followed by a dot, and the third
\* group, which is repeated, keeps the last digit it matched
version_groups(s, i) ==
    LET e1 == DigitsEnd(s, i)
        e2 == DigitsEnd(s, e1 + 1)
        e3 == DigitsEnd(s, e2 + 1)
    IN  IF /\ e1 > i /\ e1 <= Len(s) /\ s[e1] = "."
           /\ e2 > e1 + 1 /\ e2 <= Len(s) /\ s[e2] = "."
           /\ e3 > e2 + 1
        THEN <<SubSeq(s, i, e1 - 1), SubSeq(s, e1 + 1, e2 - 1), <<s[e3 - 1]>>>>
        ELSE None

\* re.match(r".*Vertica Analytic Database v(\d+)\.(\d+)\.(\d)+.*", v): the
\* leading .* is greedy and matches no newline, so the groups are those of the
\* last banner of the first line that the three numbers follow
re_match_version(v) ==
    LET first_line == IF Contains(v, "\n") THEN Min(Positions(v, "\n")) - 1 ELSE Len(v)
        hits == {k \in BannerAt(v) :
                    /\ k <= first_line
                    /\ version_groups(v, k + Len(S_banner)) # None}
    IN  IF hits = {} THEN None
        ELSE version_groups(v, Max(hits) + Len(S_banner))

\* v is what connection.scalar("SELECT version()") returned; re.match raises
\* a TypeError for a v that is no string
_get_server_version_info(v) ==
    IF v = None THEN Raise("TypeError", <<"version">>)
    ELSE LET m == re_match_version(v)
         IN  IF m = None THEN Raise("AssertionError", <<"version">>)
             ELSE Return_(<<int(m[1]), int(m[2]), int(m[3])>>, <<"version">>)

(***************************************************************************)
(* normalize_name and denormalize_name.                                    *)
(***************************************************************************)
\* str.rstrip() alone, the case of the name kept
normalize_name_keep_case(name) ==
    IF name = None THEN None ELSE rstrip(name)

\* name and name.rstrip(): None and the empty string are falsy and are kept
\* as they are; then None is returned as None and a string lower-cased
normalize_name(name) ==
    LET stripped == IF name = None \/ name = <<>> THEN name ELSE rstrip(name)
    IN  IF stripped = None THEN None ELSE lower(stripped)

denormalize_name_lower(name) == IF name = None THEN None ELSE lower(name)

denormalize_name(name) == name

(***************************************************************************)
(* The arguments of the calls.                                             *)
(***************************************************************************)
NameChars == {"t", "T", "v", "'"}
Names == UNION {[1..n -> NameChars] : n \in 1..MaxNameLen}
SchemaArgs == {None, N_s, <<"S">>, <<"v">>, <<"'">>}

\* the schema arguments that go with a name: a query is called with a single
\* quote in at most one of the values pasted into it (with a quote in each,
\* the quotes of one value can pair with those of the other)
SchemasWith(name) ==
    {schema \in SchemaArgs : ~(Contains(name, "'") /\ Contains(schema, "'"))}

S_varchar == <<"v","a","r","c","h","a","r">>
S_bigint == <<"b","i","g","i","n","t">>
S_uuid == <<"u","u","i","d">>
S_boolean == <<"b","o","o","l","e","a","n">>
S_geography == <<"g","e","o","g","r","a","p","h","y">>
S_interval_day == S_interval \o <<" ","d","a","y">>

ArgValues == 0..MaxArg
With1(base, p) == base \o <<"(">> \o str_int(p) \o <<")">>
With2(base, p, q) == base \o <<"(">> \o str_int(p) \o <<",">> \o str_int(q) \o <<")">>

BareTypes == {S_numeric, S_integer, S_int, S_bigint, S_varchar, S_timestamp,
              S_timestamptz, S_timetz, S_time, S_uuid, S_date, S_boolean,
              S_geography, S_interval, S_interval_day}
DataTypes ==
    BareTypes
    \cup {With1(b, p) : b \in {S_numeric, S_varchar, S_timestamptz, S_timetz, S_geography},
                       p \in ArgValues}
    \cup {With2(b, p, q) : b \in {S_numeric, S_geography}, p \in ArgValues, q \in ArgValues}

D_q == S_nextval \o <<"q","'",")">>                  \* nextval('q')
D_sq == S_nextval \o <<"s",".","q","'",")">>         \* nextval('s.q')
D_empty == S_nextval \o <<"'",")">>                  \* nextval('')
D_zero == <<"0">>
D_minus == <<"-">> \o D_q                            \* -nextval('q')
Defaults == {None, D_q, D_sq, D_empty, D_zero, D_minus}

\* every data type without a default, and a few data types with every
\* default, nullability and schema
TranslatorArgs ==
    {[name |-> N_a, data_type |-> t, default |-> None, is_nullable |-> FALSE,
      schema |-> None] : t \in DataTypes}
    \cup
    [name : {N_a},
     data_type : {S_int, S_bigint, S_varchar, S_uuid, S_geography, S_timestamptz,
                  With2(S_numeric, MaxArg, 2)},
     default : Defaults,
     is_nullable : BOOLEAN,
     schema : {None, N_s}]

Failures == 0..4

\* what SELECT version() returns: the banner and three numbers with text
\* after them, numbers that are missing or not separated by dots, a banner
\* on a later line or after other text, text without the banner, and None
DigitStrings(n) == UNION {[1..k -> {"1", "2"}] : k \in 0..n}
VersionNumbers == {<<>>, <<"0">>, <<"1", "2">>}
VersionTexts ==
    { S_banner \o major \o <<".">> \o minor \o <<".">> \o patch \o post :
        major \in VersionNumbers, minor \in VersionNumbers,
        patch \in DigitStrings(MaxVersionDigits), post \in {<<>>, <<"-", "0">>} }
    \cup { pre \o S_banner \o <<"1", "2", sep, "0", ".", "2">> :
             pre \in {<<"x">>, <<"\n">>, <<"x", "\n">>}, sep \in {".", "x"} }
    \cup { <<>>, <<"1", "2", ".", "0", ".", "2">>, None }

\* names as a caller writes them: letters of either case and blanks, before,
\* inside and after
RawNameChars == {"a", "A", "B", " "}
RawNames == {<<>>} \cup UNION {[1..n -> RawNameChars] : n \in 1..(MaxNameLen + 1)}

(***************************************************************************)
(* The state machine: one action per entry point of the dialect.  A call   *)
(* is made when no result is pending, and Return hands the result to the   *)
(* caller.                                                                 *)
(***************************************************************************)
Idle == [op |-> "none"]

Init ==
    /\ ischema_names = ischema_names_at_import
    /\ catalog \in Catalogs
    /\ ret = Idle
    /\ warnings = 0
    /\ logged = 0
    /\ queries = <<>>
    /\ cursors = <<>>

\* a call that only reads the catalog
Answer(op, args, r) ==
    /\ ret = Idle
    /\ ret' = [op |-> op, args |-> args, raised |-> r.raised, value |-> r.value]
    /\ queries' = r.queries
    /\ cursors' = CursorsOf(r)
    /\ warnings' = 0
    /\ logged' = 0
    /\ UNCHANGED <<ischema_names, catalog>>

GetColumnInfo ==
    \E a \in TranslatorArgs :
        LET r == _get_column_info(ischema_names, a.name, a.data_type, a.default,
                                  a.is_nullable, a.schema)
        IN  /\ ret = Idle
            /\ ret' = [op |-> "_get_column_info", args |-> a, raised |-> r.raised,
                       value |-> r.info, table |-> ischema_names]
            /\ ischema_names' = r.table
            /\ warnings' = r.warned
            /\ logged' = 0
            /\ queries' = <<>>
            /\ cursors' = <<>>
            /\ UNCHANGED catalog

HasSchema ==
    \E schema \in Names :
        Answer("has_schema", [schema |-> schema], has_schema(catalog, schema))

HasTable ==
    \E table_name \in Names : \E schema \in SchemasWith(table_name) :
        Answer("has_table", [table_name |-> table_name, schema |-> schema],
               has_table(catalog, table_name, schema))

HasSequence ==
    \E sequence_name \in Names : \E schema \in SchemasWith(sequence_name) :
        Answer("has_sequence", [sequence_name |-> sequence_name, schema |-> schema],
               has_sequence(catalog, sequence_name, schema))

HasType ==
    \E type_name \in Names :
        Answer("has_type", [type_name |-> type_name], has_type(catalog, type_name))

GetTableOid ==
    \E table_name \in Names : \E schema \in SchemasWith(table_name) :
        Answer("get_table_oid", [table_name |-> table_name, schema |-> schema],
               get_table_oid(catalog, table_name, schema))

GetColumns ==
    \E table_name \in Names : \E schema \in SchemasWith(table_name) :
        LET r == get_columns(ischema_names, catalog, table_name, schema)
        IN  /\ ret = Idle
            /\ ret' = [op |-> "get_columns",
                       args |-> [table_name |-> table_name, schema |-> schema],
                       raised |-> r.raised, value |-> r.value, table |-> ischema_names]
            /\ ischema_names' = r.table
            /\ warnings' = r.warned
            /\ logged' = 0
            /\ queries' = r.queries
            /\ cursors' = CursorsOf(r)
            /\ UNCHANGED catalog

GetUniqueConstraints ==
    \E table_name \in Names : \E schema \in SchemasWith(table_name) :
        Answer("get_unique_constraints", [table_name |-> table_name, schema |-> schema],
               get_unique_constraints(catalog, table_name, schema))

GetCheckConstraints ==
    \E table_name \in Names : \E schema \in SchemasWith(table_name) :
        Answer("get_check_constraints", [table_name |-> table_name, schema |-> schema],
               get_check_constraints(catalog, table_name, schema))

GetPkConstraint ==
    \E table_name \in Names : \E schema \in SchemasWith(table_name) \cup {Omitted} :
        Answer("get_pk_constraint", [table_name |-> table_name, schema |-> schema],
               get_pk_constraint(catalog, table_name, schema))

GetForeignKeys ==
    \E table_name \in Names : \E schema \in SchemasWith(table_name) :
        Answer("get_foreign_keys", [table_name |-> table_name, schema |-> schema],
               get_foreign_keys(catalog, table_name, schema))

GetProjectionComment ==
    \E projection_name \in Names : \E schema \in SchemasWith(projection_name) :
        Answer("get_projection_comment",
               [projection_name |-> projection_name, schema |-> schema],
               get_projection_comment(catalog, projection_name, schema))

GetDatabaseProperties ==
    \E fail \in Failures :
        LET r == _get_database_properties(catalog, <<"d","b">>, fail)
        IN  /\ ret = Idle
            /\ ret' = [op |-> "_get_database_properties", args |-> [fail |-> fail],
                       raised |-> r.raised, value |-> r.value]
            /\ queries' = r.queries
            /\ cursors' = CursorsOf(r)
            /\ logged' = r.logged
            /\ warnings' = 0
            /\ UNCHANGED <<ischema_names, catalog>>

GetSchemaProperties ==
    \E schema \in SchemaArgs, fail \in Failures :
        LET r == _get_schema_properties(catalog, schema, fail)
        IN  /\ ret = Idle
            /\ ret' = [op |-> "_get_schema_properties",
                       args |-> [schema |-> schema, fail |-> fail],
                       raised |-> r.raised, value |-> r.value]
            /\ queries' = r.queries
            /\ cursors' = CursorsOf(r)
            /\ logged' = r.logged
            /\ warnings' = 0
            /\ UNCHANGED <<ischema_names, catalog>>

GetOauthComment ==
    \E oauth \in {N_v}, schema \in SchemaArgs :
        Answer("get_oauth_comment", [oauth |-> oauth, schema |-> schema],
               get_oauth_comment(catalog, oauth, schema))

GetViewDefinition ==
    \E view_name \in Names : \E schema \in SchemasWith(view_name) :
        Answer("get_view_definition", [view_name |-> view_name, schema |-> schema],
               get_view_definition(catalog, view_name, schema))

GetTableComment ==
    \E table_name \in Names : \E schema \in SchemasWith(table_name) :
        Answer("get_table_comment", [table_name |-> table_name, schema |-> schema],
               get_table_comment(catalog, table_name, schema))

GetModelComment ==
    \E model_name \in Names : \E schema \in SchemasWith(model_name) :
        Answer("get_model_comment", [model_name |-> model_name, schema |-> schema],
               get_model_comment(catalog, model_name, schema))

GetServerVersionInfo ==
    \E v \in VersionTexts :
        Answer("_get_server_version_info", [version |-> v],
               _get_server_version_info(v))

NormalizeName ==
    \E name \in RawNames \cup {None} :
        Answer("normalize_name", [name |-> name],
               Return_(normalize_name(name), <<>>))

DenormalizeName ==
    \E name \in RawNames \cup {None} :
        Answer("denormalize_name", [name |-> name],
               Return_(denormalize_name(name), <<>>))

\* the caller takes the result, or the exception
Return ==
    /\ ret # Idle
    /\ ret' = Idle
    /\ warnings' = 0
    /\ logged' = 0
    /\ queries' = <<>>
    /\ cursors' = <<>>
    /\ UNCHANGED <<ischema_names, catalog>>

Next ==
    \/ GetColumnInfo
    \/ HasSchema
    \/ HasTable
    \/ HasSequence
    \/ HasType
    \/ GetTableOid
    \/ GetColumns
    \/ GetUniqueConstraints
    \/ GetCheckConstraints
    \/ GetPkConstraint
    \/ GetForeignKeys
    \/ GetProjectionComment
    \/ GetDatabaseProperties
    \/ GetSchemaProperties
    \/ GetOauthComment
    \/ GetViewDefinition
    \/ GetTableComment
    \/ GetModelComment
    \/ GetServerVersionInfo
    \/ NormalizeName
    \/ DenormalizeName
    \/ Return

Spec == Init /\ [][Next]_vars

(***************************************************************************)
(* The claims of the specification, C1 to C10.                             *)
(***************************************************************************)
\* the call of _get_column_info that has just answered, made again on the
\* lookup table as it is at import
FirstCall(a) ==
    _get_column_info(ischema_names_at_import, a.name, a.data_type, a.default,
                     a.is_nullable, a.schema)

\* the raw type strings that claim C1 lists
ListedTypes ==
    {S_timestamp, S_timestamptz, S_timetz, S_uuid}
    \cup {With1(S_varchar, n) : n \in ArgValues}
    \cup {With2(S_numeric, p, q) : p \in ArgValues, q \in ArgValues}

\* C1: a call of _get_column_info on one of the listed raw type strings, made
\* at any time after import, returns, and so does the same call made first on
\* the fresh lookup table, and the two descriptors are equal.
C1_SameAsFirstCall ==
    (ret.op = "_get_column_info" /\ ret.args.data_type \in ListedTypes)
        => /\ FirstCall(ret.args).raised = "none"
           /\ ret.raised = "none"
           /\ ret.value = FirstCall(ret.args).info

\* the base type name of a raw type string: the string without its
\* parenthesized part
BaseName(data_type) == re_sub_parens(data_type)

\* C2: a call of _get_column_info whose base type name is not a key of the
\* lookup table (and is not an interval, which the code renames) does not
\* raise, emits one warning and returns a descriptor whose type is the null
\* type, with name and nullable as given and autoincrement false.
C2_UnknownTypeDegrades ==
    (/\ ret.op = "_get_column_info"
     /\ ~startswith(BaseName(ret.args.data_type), S_interval)
     /\ upper(BaseName(ret.args.data_type)) \notin DOMAIN ret.table)
        => /\ ret.raised = "none"
           /\ warnings = 1
           /\ ret.value.type = NULLTYPE
           /\ ret.value.name = ret.args.name
           /\ ret.value.nullable = ret.args.is_nullable
           /\ ret.value.autoincrement = FALSE

\* C3: _get_column_info of 'numeric(p,s)' returns a NUMERIC built with the
\* integers p and s, in this order, and nothing else; of 'numeric' it returns
\* a NUMERIC built with no argument.
C3_NumericPrecisionScale ==
    ret.op = "_get_column_info"
        => /\ \A p \in ArgValues, q \in ArgValues :
                ret.args.data_type = With2(S_numeric, p, q)
                    => /\ ret.raised = "none"
                       /\ ret.value.type = [cls |-> "NUMERIC",
                                            args |-> << [int |-> p], [int |-> q] >>,
                                            kwargs |-> <<>>]
           /\ ret.args.data_type = S_numeric
                    => /\ ret.raised = "none"
                       /\ ret.value.type = [cls |-> "NUMERIC", args |-> <<>>,
                                            kwargs |-> <<>>]

\* a numeric(10,2) has been translated, with precision 10 and scale 2
C3_Witness ==
    /\ ret.op = "_get_column_info"
    /\ ret.args.data_type = S_numeric \o <<"(","1","0",",","2",")">>
    /\ ret.raised = "none"
    /\ ret.value.type.args = << [int |-> 10], [int |-> 2] >>

\* the columns of the table (table_name, schema) in v_catalog.columns
ColumnsOf(cat, table_name, schema) ==
    {i \in 1..Len(cat.columns) :
        /\ lower(cat.columns[i].table_name) = lower(table_name)
        /\ lower(cat.columns[i].table_schema) = lower(schema)}

\* the primary-key column set of the table (table_name, schema)
KeyOf(cat, table_name, schema) ==
    {cat.primary_keys[i].column_name : i \in
        {j \in 1..Len(cat.primary_keys) :
            /\ lower(cat.primary_keys[j].table_name) = lower(table_name)
            /\ lower(cat.primary_keys[j].table_schema) = lower(schema)}}

\* C4: get_columns of a table of the catalog, with its schema, returns one
\* descriptor per column of the table, with primary_key true on exactly the
\* columns whose lower-cased name is that of a primary-key column.
C4_PrimaryKeyMarked ==
    (/\ ret.op = "get_columns"
     /\ ret.args.schema # None
     /\ ColumnsOf(catalog, ret.args.table_name, ret.args.schema) # {})
        => /\ ret.raised = "none"
           /\ Len(ret.value)
                = Cardinality(ColumnsOf(catalog, ret.args.table_name, ret.args.schema))
           /\ \A i \in 1..Len(ret.value) :
                ret.value[i].primary_key
                    = (\E k \in KeyOf(catalog, ret.args.table_name, ret.args.schema) :
                            lower(k) = lower(ret.value[i].name))

\* the default expression contains nextval(' followed by a non-empty sequence
\* name and a closing single quote
HasNextval(default) ==
    \E i \in 1..Len(default) : \E k \in i..Len(default) :
        /\ k >= i + Len(S_nextval)
        /\ k + 1 <= Len(default)
        /\ SubSeq(default, i, i + Len(S_nextval) - 1) = S_nextval
        /\ \A m \in (i + Len(S_nextval))..k : default[m] # "'"
        /\ default[k + 1] = "'"

\* C5: the autoincrement field of the descriptor that _get_column_info returns
\* is true exactly when the default is present, contains nextval('<seq>' and
\* the resolved type is one of the integer types.
C5_AutoincrementIff ==
    (ret.op = "_get_column_info" /\ ret.raised = "none")
        => (ret.value.autoincrement
                <=> /\ ret.args.default # None
                    /\ HasNextval(ret.args.default)
                    /\ ret.value.type.cls \in {"INTEGER", "BIGINT", "SMALLINT"})

\* a bigint column fed from a sequence has been translated as autoincrement
C5_Witness ==
    /\ ret.op = "_get_column_info"
    /\ ret.raised = "none"
    /\ ret.args.data_type = S_bigint
    /\ ret.args.default = D_sq
    /\ ret.value.autoincrement = TRUE

\* the schema an existence check looks in
LookedIn(cat, a) == IF a.schema = None THEN cat.current_schema ELSE a.schema

\* the catalog holds a row with the case-folded name (and schema) of the call
Exists(cat, op, a) ==
    CASE op = "has_schema" ->
            \E i \in 1..Len(cat.schemata) :
                lower(cat.schemata[i].schema_name) = lower(a.schema)
      [] op = "has_table" ->
            \E r \in {all_tables(cat)[i] : i \in 1..Len(all_tables(cat))} :
                /\ lower(r.table_name) = lower(a.table_name)
                /\ lower(r.schema_name) = lower(LookedIn(cat, a))
      [] op = "has_sequence" ->
            \E i \in 1..Len(cat.sequences) :
                /\ lower(cat.sequences[i].sequence_name) = lower(a.sequence_name)
                /\ lower(cat.sequences[i].sequence_schema) = lower(LookedIn(cat, a))
      [] OTHER ->
            \E i \in 1..Len(cat.types) :
                lower(cat.types[i].type_name) = lower(a.type_name)

\* C6: has_schema, has_table, has_sequence and has_type do not raise, and
\* return true exactly when the catalog holds a row with the case-folded name
\* (and schema) of the call.
C6_ExistenceNeverRaises ==
    ret.op \in {"has_schema", "has_table", "has_sequence", "has_type"}
        => /\ ret.raised = "none"
           /\ ret.value = Exists(catalog, ret.op, ret.args)

\* the table_ids of the rows of tables and views for (table_name, schema)
IdsOf(cat, a) ==
    {r.table_id : r \in
        {x \in {cat.tables[i] : i \in 1..Len(cat.tables)}
                \cup {cat.views[i] : i \in 1..Len(cat.views)} :
            /\ lower(x.table_name) = lower(a.table_name)
            /\ lower(x.table_schema) = lower(LookedIn(cat, a))}}

\* C7: get_table_oid raises NoSuchTableError when neither tables nor views
\* holds a row for the pair, and otherwise returns the positive table_id of a
\* matching row.
C7_OidOrNoSuchTable ==
    ret.op = "get_table_oid"
        => IF IdsOf(catalog, ret.args) = {}
           THEN ret.raised = "NoSuchTableError"
           ELSE /\ ret.raised = "none"
                /\ ret.value \in IdsOf(catalog, ret.args)
                /\ ret.value > 0

\* no table, view or projection of any schema has the name
Absent(cat, table_name) ==
    /\ \A i \in 1..Len(cat.tables) : lower(cat.tables[i].table_name) # lower(table_name)
    /\ \A i \in 1..Len(cat.views) : lower(cat.views[i].table_name) # lower(table_name)
    /\ \A i \in 1..Len(cat.projections) :
            lower(cat.projections[i].projection_name) # lower(table_name)

\* C8: for a table name without a quote that is absent from the catalog, the
\* column listing and the constraint listings return an empty result and do
\* not raise.
C8_AbsentTableListsEmpty ==
    (/\ ret.op \in {"get_columns", "get_unique_constraints", "get_check_constraints",
                    "get_pk_constraint", "get_foreign_keys"}
     /\ ~Contains(ret.args.table_name, "'")
     /\ (ret.args.schema = None \/ ~Contains(ret.args.schema, "'"))
     /\ Absent(catalog, ret.args.table_name))
        => /\ ret.raised = "none"
           /\ IF ret.op = "get_pk_constraint"
              THEN Len(ret.value.constrained_columns) = 0
              ELSE Len(ret.value) = 0

\* C9: when a query of _get_database_properties or of _get_schema_properties
\* fails, or the schema is absent, the aggregator logs a diagnostic and
\* returns None, and no exception reaches the caller.
C9_AggregatorsNeverRaise ==
    (\/ ret.op = "_get_database_properties" /\ ret.args.fail \in 1..4
     \/ ret.op = "_get_schema_properties"
            /\ (ret.args.schema = None \/ ret.args.fail \in 1..3))
        => /\ ret.raised = "none"
           /\ ret.value = None
           /\ logged > 0

\* C10: get_projection_comment of a projection of the catalog, with its
\* schema, that has no row in partitions returns with 'Number of Partition'
\* the rendering of 0 and 'Partition Key' the empty string.
C10_NoPartitions ==
    (/\ ret.op = "get_projection_comment"
     /\ ret.args.schema # None
     /\ \E i \in 1..Len(catalog.projections) :
            /\ lower(catalog.projections[i].projection_name) = lower(ret.args.projection_name)
            /\ lower(catalog.projections[i].projection_schema) = lower(ret.args.schema)
     /\ \A i \in 1..Len(catalog.partitions) :
            ~(/\ lower(catalog.partitions[i].projection_name) = lower(ret.args.projection_name)
              /\ lower(catalog.partitions[i].table_schema) = lower(ret.args.schema)))
        => /\ ret.raised = "none"
           /\ ret.value.properties["Number of Partition"] = <<"0">>
           /\ ret.value.properties["Partition Key"] = <<>>

\* no row of projection_storage, projections, partitions or
\* depot_pin_policies carries the projection name
NoProjectionRow(cat, projection_name) ==
    /\ \A i \in 1..Len(cat.projection_storage) :
            lower(cat.projection_storage[i].projection_name) # lower(projection_name)
    /\ \A i \in 1..Len(cat.projections) :
            lower(cat.projections[i].projection_name) # lower(projection_name)
    /\ \A i \in 1..Len(cat.partitions) :
            lower(cat.partitions[i].projection_name) # lower(projection_name)
    /\ \A i \in 1..Len(cat.depot_pin_policies) :
            lower(cat.depot_pin_policies[i].object_name) # lower(projection_name)

\* C11: for a projection name without a quote that has no row in any of the
\* catalog views, get_projection_comment does not raise and returns its
\* envelope of text and properties, built from the empty results of the
\* property functions.
C11_AbsentProjectionEnvelope ==
    (/\ ret.op = "get_projection_comment"
     /\ ~Contains(ret.args.projection_name, "'")
     /\ ~Contains(ret.args.schema, "'")
     /\ NoProjectionRow(catalog, ret.args.projection_name))
        => /\ ret.raised = "none"
           /\ DOMAIN ret.value = {"text", "properties"}
           /\ ret.value.properties["Partition Key"] = <<>>

\* the values of an OAUTH record: none holds the pair separator ", "
OAuthValues == {V_id, V_secret, V_padded, V_url, V_query}

\* C12: when the single OAUTH row holds 'client_id=A, client_secret=B,
\* discovery_url=C, introspect_url=D', get_oauth_comment returns the
\* properties client_id = A, client_secret = B, discovery_url = C and
\* introspect_url = D.
C12_OAuthFieldsWhole ==
    ret.op = "get_oauth_comment"
        => \A a, b, c, d \in OAuthValues :
              catalog.client_auth = <<AuthRow(OAuthBlob(a, b, c, d))>>
                => /\ ret.raised = "none"
                   /\ ret.value.properties["client_id"] = a
                   /\ ret.value.properties["client_secret"] = b
                   /\ ret.value.properties["discovery_url"] = c
                   /\ ret.value.properties["introspect_url"] = d

\* two names that differ only in letter case
SameButCase(a, b) ==
    /\ Len(a) = Len(b)
    /\ \A i \in 1..Len(a) : a[i] = b[i] \/ upper_char(a[i]) = upper_char(b[i])

\* C13: for a present name X, normalize_name(normalize_name(X)) equals
\* normalize_name(X), and every name that differs from X only in letter case
\* has the same normalize_name
C13_NormalizeIdempotentCaseless ==
    ret.op = "normalize_name" /\ ret.args.name # None
        => /\ ret.raised = "none"
           /\ normalize_name(ret.value) = ret.value
           /\ \A other \in RawNames :
                 SameButCase(other, ret.args.name)
                   => normalize_name(other) = ret.value

\* a name with upper-case letters and a trailing blank has been normalized
C13_Witness ==
    /\ ret.op = "normalize_name"
    /\ ret.args.name = <<"A", "B", " ">>
    /\ ret.value = <<"a", "b">>

\* C14: normalize_name returns a present name with the leading and the
\* trailing whitespace removed and the letters lower-cased, and None for None
C14_NormalizeStripsBothEnds ==
    ret.op = "normalize_name"
        => /\ ret.raised = "none"
           /\ ret.value = IF ret.args.name = None THEN None
                          ELSE lower(lstrip(rstrip(ret.args.name)))

\* C15: denormalize_name returns its argument unchanged, whatever its case,
\* and None for None
C15_DenormalizeIdentity ==
    ret.op = "denormalize_name"
        => ret.raised = "none" /\ ret.value = ret.args.name

\* a name of mixed case, and the absent name, have been denormalized
C15_Witness ==
    /\ ret.op = "denormalize_name"
    /\ ret.args.name = <<"a", "B", "A">>
    /\ ret.value = <<"a", "B", "A">>

\* the names and the schema arguments that differ from the given one only in
\* letter case
CaseVariants(name) ==
    LET chars == UNION {{lower_char(name[i]), upper_char(name[i])} : i \in 1..Len(name)}
    IN  {other \in [1..Len(name) -> chars] : SameButCase(other, name)}

\* the outcome of a catalog query function for other arguments
Outcome(r) == [raised |-> r.raised, value |-> r.value]
Requery(op, name, schema) ==
    CASE op = "has_table" -> Outcome(has_table(catalog, name, schema))
      [] op = "has_sequence" -> Outcome(has_sequence(catalog, name, schema))
      [] op = "get_table_oid" -> Outcome(get_table_oid(catalog, name, schema))
      [] op = "get_table_comment" -> Outcome(get_table_comment(catalog, name, schema))
      [] op = "get_unique_constraints" ->
            Outcome(get_unique_constraints(catalog, name, schema))
      [] op = "get_view_definition" ->
            Outcome(get_view_definition(catalog, name, schema))
      [] op = "get_model_comment" -> Outcome(get_model_comment(catalog, name, schema))

\* the name argument of a call
NameArg(args) ==
    IF "table_name" \in DOMAIN args THEN args.table_name
    ELSE IF "sequence_name" \in DOMAIN args THEN args.sequence_name
    ELSE IF "view_name" \in DOMAIN args THEN args.view_name
    ELSE args.model_name

\* C16: a catalog query function called with a name and a schema answers as
\* it does for every name and schema that differ from them only in letter
\* case, whatever letter case the catalog stores the identifiers in
C16_CaseInsensitiveLookup ==
    ret.op \in {"has_table", "has_sequence", "get_table_oid", "get_table_comment",
                "get_unique_constraints", "get_view_definition", "get_model_comment"}
        => \A name \in CaseVariants(NameArg(ret.args)) :
             \A schema \in CaseVariants(ret.args.schema) :
                Requery(ret.op, name, schema) = Outcome(ret)

\* C17: called without a schema, get_table_comment, get_projection_comment,
\* get_model_comment and get_oauth_comment return without raising, and the
\* schema of an object does not decide whether it is matched: the table
\* comment carries a creation time exactly when some schema holds a table or
\* a view of the name
C17_NoSchemaMatchesAll ==
    /\ ret.op \in {"get_table_comment", "get_projection_comment",
                    "get_model_comment", "get_oauth_comment"}
    /\ ret.args.schema = None
    => /\ ret.raised = "none"
       /\ ret.op = "get_table_comment"
            => (ret.value.properties["create_time"] # <<>>
                  <=> \E i \in 1..Len(all_tables(catalog)) :
                         lower(all_tables(catalog)[i].table_name)
                            = lower(ret.args.table_name))

\* C18: has_table, has_sequence, get_table_oid and get_unique_constraints
\* called without a schema issue one current-schema query and then their
\* catalog query, and answer as the same call with the current schema does;
\* called with a schema they issue no current-schema query
C18_DefaultsToCurrentSchema ==
    ret.op \in {"has_table", "has_sequence", "get_table_oid", "get_unique_constraints"}
        => IF ret.args.schema = None
           THEN /\ Len(queries) = 2
                /\ queries[1] = "current_schema"
                /\ queries[2] # "current_schema"
                /\ Outcome(ret) = Requery(ret.op, NameArg(ret.args),
                                          catalog.current_schema)
           ELSE \A i \in 1..Len(queries) : queries[i] # "current_schema"

\* a table of the current schema has been found by a call without a schema
C18_Witness ==
    /\ ret.op = "has_table"
    /\ ret.args.schema = None
    /\ queries = <<"current_schema", "all_tables">>
    /\ ret.args.table_name = <<"t", "T">>
    /\ ret.value = TRUE

\* the three whole numbers A.B.C at index i of a text, or None
version_groups_whole(s, i) ==
    LET e1 == DigitsEnd(s, i)
        e2 == DigitsEnd(s, e1 + 1)
        e3 == DigitsEnd(s, e2 + 1)
    IN  IF /\ e1 > i /\ e1 <= Len(s) /\ s[e1] = "."
           /\ e2 > e1 + 1 /\ e2 <= Len(s) /\ s[e2] = "."
           /\ e3 > e2 + 1
        THEN <<SubSeq(s, i, e1 - 1), SubSeq(s, e1 + 1, e2 - 1), SubSeq(s, e2 + 1, e3 - 1)>>
        ELSE None

\* the version triples written in a text: the numbers that follow a banner
VersionsIn(v) ==
    IF v = None THEN {}
    ELSE {version_groups_whole(v, k + Len(S_banner)) : k \in BannerAt(v)} \ {None}

\* C19: _get_server_version_info raises an AssertionError, and nothing else,
\* for a version value that is absent or holds no banner followed by three
\* numbers, and what it returns is a tuple of three integers
C19_UnparsableVersionAsserts ==
    ret.op = "_get_server_version_info"
        => /\ VersionsIn(ret.args.version) = {} => ret.raised = "AssertionError"
           /\ ret.raised = "none" => Len(ret.value) = 3

\* C20: for a version text holding the banner and the numbers A.B.C,
\* _get_server_version_info returns the triple of integers (A, B, C)
C20_VersionTriple ==
    ret.op = "_get_server_version_info"
        => \A triple \in VersionsIn(ret.args.version) :
              /\ ret.raised = "none"
              /\ ret.value = <<int(triple[1]), int(triple[2]), int(triple[3])>>

\* C21: a constraint is reported as one descriptor, with a name that is a
\* single string and the list of its columns: the name of a primary key is
\* not the list of its columns, and no two descriptors of
\* get_unique_constraints carry the same constraint name
C21_ConstraintDescriptors ==
    /\ (ret.op = "get_pk_constraint" /\ ret.raised = "none")
        => (Len(ret.value.constrained_columns) > 0
              => ret.value.name # ret.value.constrained_columns)
    /\ (ret.op = "get_unique_constraints" /\ ret.raised = "none")
        => \A i, j \in 1..Len(ret.value) :
              ret.value[i].name = ret.value[j].name => i = j


\* the field names of an attribute group, and the mapping of the group: the
\* attribute name, and under each field name the values of the detail rows
\* in their order
FieldNames(group) ==
    LET parts == split(group.attr_fields, ",")
    IN  [i \in 1..Len(parts) |-> lstrip(rstrip(parts[i]))]
GroupMapping(group) ==
    << [key |-> S_attr_name, value |-> [str |-> group.attr_name]] >>
    \o [i \in 1..Len(FieldNames(group)) |->
          [key |-> FieldNames(group)[i],
           value |-> [list |-> [j \in 1..Len(group.details) |-> group.details[j][i]]]]]

\* C22: get_model_comment records for every attribute group, in the order of
\* the enumeration, a mapping from each field name to the list of the values
\* of the detail rows
C22_ModelPivot ==
    (ret.op = "get_model_comment" /\ ret.raised = "none")
        => \A m \in 1..Len(catalog.models) :
              (/\ lower(catalog.models[m].schema_name) = lower(ret.args.schema)
               /\ lower(catalog.models[m].model_name) = lower(ret.args.model_name))
                => ret.value.properties["Model Specifications"]
                      = py_dicts_str([g \in 1..Len(catalog.models[m].groups) |->
                                        GroupMapping(catalog.models[m].groups[g])])

\* C23: within a call, a query is issued only when the result of every query
\* issued before it in the call has been read to its end
C23_NoOverlappingResults ==
    \A i \in 1..Len(cursors) :
        cursors[i].do = "issue"
            => \A n \in 1..(cursors[i].n - 1) :
                  \E j \in 1..(i - 1) : cursors[j] = close(n)

\* C24: a call of get_unique_constraints, get_check_constraints or
\* get_pk_constraint issues exactly one query, whatever its arguments, and
\* so does each call of _get_partitionkey, _get_numpartitions and
\* _get_projectionsize, here those made for a projection comment
C24_OneQueryPerCall ==
    /\ ret.op \in {"get_unique_constraints", "get_check_constraints", "get_pk_constraint"}
        => Len(queries) = 1
    /\ ret.op = "get_projection_comment"
        => /\ Len(_get_partitionkey(catalog, ret.args.projection_name,
                                     ret.args.schema).queries) = 1
           /\ Len(_get_numpartitions(catalog, ret.args.projection_name,
                                      ret.args.schema).queries) = 1
           /\ Len(_get_projectionsize(catalog, ret.args.projection_name,
                                       ret.args.schema).queries) = 1

\* C25: a name is embedded in a query lower-cased and with its single quotes
\* escaped: the query of a call is the query of the call with the names in
\* lower case, and a name with a single quote does not end its literal, so
\* that the statement parses
C25_NamesEmbeddedSafely ==
    ret.op \in {"has_table", "has_sequence", "get_table_oid", "get_table_comment",
                "get_unique_constraints", "get_view_definition", "get_model_comment"}
        => /\ Requery(ret.op, lower(NameArg(ret.args)), ret.args.schema) = Outcome(ret)
           /\ ret.op # "get_model_comment" => ret.raised # "ProgrammingError"

\* C26: on a fresh lookup table the first translation already resolves
\* against the augmented table: 'uuid' gives the UUID type, and
\* 'timestamptz' and 'timetz' give the specialization with a time zone,
\* without failing
C26_FirstCallAugmented ==
    (ret.op = "_get_column_info" /\ ret.table = ischema_names_at_import)
        => /\ ret.args.data_type = S_uuid
                => (ret.raised = "none" /\ ret.value.type.cls = "UUID")
           /\ ret.args.data_type = S_timestamptz
                => /\ ret.raised = "none"
                   /\ ret.value.type.cls = "TIMESTAMP_WITH_PRECISION"
                   /\ ret.value.type.kwargs = ("timezone" :> TRUE)
           /\ ret.args.data_type = S_timetz
                => /\ ret.raised = "none"
                   /\ ret.value.type.cls = "TIME"
                   /\ ret.value.type.kwargs = ("timezone" :> TRUE)

\* the four entries are bound to their specializations
Specialized(table) ==
    /\ {K_UUID, K_TIMESTAMP, K_TIMESTAMPTZ, K_TIMETZ} \subseteq DOMAIN table
    /\ table[K_UUID] = Class("UUID")
    /\ table[K_TIMESTAMP] = Class("TIMESTAMP_WITH_PRECISION")
    /\ table[K_TIMESTAMPTZ] = Function("TIMESTAMP_WITH_TIMEZONE")
    /\ table[K_TIMETZ] = Function("TIME_WITH_TIMEZONE")

\* C27: once a call of _get_column_info has completed the lookup table holds
\* UUID, TIMESTAMP, TIMESTAMPTZ and TIMETZ bound to their specializations,
\* and no step of any operation changes an entry of a table that holds them
C27_AugmentedOnceThenFixed ==
    /\ [](ret.op = "_get_column_info" => Specialized(ischema_names))
    /\ [][Specialized(ischema_names) => ischema_names' = ischema_names]_vars

\* the positions where nextval('<seq>' starts in a default expression
NextvalStarts(default) ==
    {i \in 1..Len(default) :
        \E k \in (i + Len(S_nextval))..(Len(default) - 1) :
            /\ SubSeq(default, i, i + Len(S_nextval) - 1) = S_nextval
            /\ \A m \in (i + Len(S_nextval))..k : default[m] # "'"
            /\ default[k + 1] = "'"}

\* where the sequence name of the first nextval('<seq>' starts, and the name
SequenceStart(default) == Min(NextvalStarts(default)) + Len(S_nextval)
SequenceName(default) ==
    SubSeq(default, SequenceStart(default),
           Min({k \in SequenceStart(default)..Len(default) : default[k] = "'"}) - 1)

\* the expression with "schema". put in immediately before the sequence name
Qualified(default, schema) ==
    SubSeq(default, 1, SequenceStart(default) - 1)
        \o <<"\"">> \o schema \o <<"\"", ".">>
        \o SubSeq(default, SequenceStart(default), Len(default))

\* C28: the returned default is the input default, except that for a
\* default with nextval('<seq>' whose sequence name has no '.', and a schema
\* given, it is the input with "schema". inserted immediately before the
\* sequence name and every other character unchanged; the comment is the
\* string rendering of the returned default
C28_DefaultRewrite ==
    (ret.op = "_get_column_info" /\ ret.raised = "none")
        => /\ ret.value.default =
                IF /\ ret.args.default # None
                   /\ NextvalStarts(ret.args.default) # {}
                   /\ ret.args.schema # None
                   /\ ~Contains(SequenceName(ret.args.default), ".")
                THEN Qualified(ret.args.default, ret.args.schema)
                ELSE ret.args.default
           /\ ret.value.comment = str(ret.value.default)

\* the catalog without the rows of a projection of that name in a schema
\* other than the given one
OnlyIn(cat, projection_name, schema) ==
    [cat EXCEPT
        !.projections = SelectSeq(@, LAMBDA r :
            lower(r.projection_name) = lower(projection_name)
                => lower(r.projection_schema) = lower(schema)),
        !.projection_storage = SelectSeq(@, LAMBDA r :
            lower(r.projection_name) = lower(projection_name)
                => lower(r.projection_schema) = lower(schema)),
        !.partitions = SelectSeq(@, LAMBDA r :
            lower(r.projection_name) = lower(projection_name)
                => lower(r.table_schema) = lower(schema))]

\* C29: get_projection_comment(P, schema=S) answers from the rows of the
\* projection (S, P) only: the answer is the same in the catalog without the
\* rows of a projection named P in another schema
C29_OnlyRowsOfTheSchema ==
    (ret.op = "get_projection_comment" /\ ret.args.schema # None)
        => Outcome(ret) =
              Outcome(get_projection_comment(
                  OnlyIn(catalog, ret.args.projection_name, ret.args.schema),
                  ret.args.projection_name, ret.args.schema))

\* C30: 'numeric(p)', a precision without a scale, does not raise and gives
\* the NUMERIC type built with no positional argument, as bare 'numeric' does
C30_NumericPrecisionOnly ==
    (/\ ret.op = "_get_column_info"
     /\ \E p \in ArgValues : ret.args.data_type = With1(S_numeric, p))
        => /\ ret.raised = "none"
           /\ ret.value.type = [cls |-> "NUMERIC", args |-> <<>>, kwargs |-> NoKwargs]

=============================================================================
